---- MODULE Spec2Model ----
(***************************************************************************)
(* Model of the bslma::Allocator protocol, its object-lifetime utilities  *)
(* (deleteObject, deleteObjectRaw), the placement new/delete operators    *)
(* taking an allocator, and the concrete allocators and test classes of   *)
(* groups/bsl/bslma/bslma_allocator.t.cpp.                                 *)
(*                                                                         *)
(* Addresses are integers.  Block k of the global heap is handed out by   *)
(* my_NewDeleteAllocator at address 64 * k (its header word lies in the   *)
(* BSLS_MAX_ALIGNMENT bytes before that address); 0 is the null pointer.  *)
(* Object layout follows the Itanium C++ ABI on an LP64 platform.         *)
(***************************************************************************)
EXTENDS Integers, Sequences, FiniteSets

\* Number of blocks the global heap can hand out before `operator new` throws.
HeapBlocks == 2

\* Cap on the number of allocator calls (allocate + deallocate) in a run.
MaxCalls == 3

\* Operations performed on the allocator-aware objects in one run.
MaxOps == 4

VARIABLES
    nda,          \* my_NewDeleteAllocator: [d_count]
    mya,          \* my_Allocator: [d_fun, d_arg, d_allocateCount, d_deallocateCount]
    hdr,          \* word stored in front of each heap block
    inUse,        \* heap blocks currently handed out by global operator new
    bsize,        \* size requested for each heap block in use
    objs,         \* object living at each address (NoObj when none)
    ctr,          \* the global counters the test classes maintain
    testStatus,   \* number of failed ASSERTs
    ub,           \* undefined behaviour has happened
    excBuild,     \* BDE_BUILD_TARGET_EXC is defined for this build
    myA,          \* which allocator the client uses ("bslma::Allocator& a = myA")
    log,          \* allocator calls, constructor and destructor runs of the last operation
    last,         \* the last operation: its arguments, result and the state before it
    tallocs,      \* bslma::TestAllocator: [numBlocksInUse, numBlocksTotal] of each
    aaobjs,       \* the allocator-aware objects of the test driver
    aalast,       \* the last operation on them: its arguments, result and the state before it
    recs,         \* ball::Record: the log records of the client
    rdefault,     \* the default allocator currently installed
    rlast,        \* the last operation on the records: arguments, result, allocator calls
    arr,          \* bsl::array: [SIZE, d_data]
    arlast,       \* the last access to the array: position, result, exception
    seq,          \* MySequenceWithDoubleAttribute: [d_attribute1]
    slast,        \* the last call on the sequence: arguments, result, functor invocations
    stack,        \* my_DoubleStack: [alive, d_stack_p, d_size, d_length, d_allocator_p]
    sheap,        \* the heap the stack's allocators draw on: owner and contents of each block, call counts
    stlast,       \* the last operation on the stack: arguments, exception, allocator calls, state before
    attribs,        \* ball::Attribute: [alive, d_name, d_value, d_hashValue, d_hashSize] of each object
    atlast,       \* the last operation on the attributes: objects involved and result
    safeBuild,    \* BSLS_ASSERT_SAFE is active in this build (BDE_BUILD_TARGET_SAFE)
    prt           \* balxml::TypesPrintUtil: the object and mode of a call, the stream, the formatter print() chose

vars == <<nda, mya, hdr, inUse, bsize, objs, ctr, testStatus, ub, excBuild, myA, log, last,
          tallocs, aaobjs, aalast, recs, rdefault, rlast,
          arr, arlast, seq, slast,
          stack, sheap, stlast,
          attribs, atlast,
          safeBuild, prt>>

\* The variables of each component.
clientVars == <<nda, mya, hdr, inUse, bsize, objs, ctr, testStatus, ub, excBuild, myA, log, last>>

aaVars == <<tallocs, aaobjs, aalast>>

recVars == <<recs, rdefault, rlast>>

arrVars == <<arr, arlast>>

seqVars == <<seq, slast>>

stkVars == <<stack, sheap, stlast>>

attVars == <<attribs, atlast>>

prtVars == <<safeBuild, prt>>

Blocks == 1 .. HeapBlocks

Allocators == {"nda", "mya"}

NoObj == [cls |-> "none", stuff |-> 0, al |-> "none"]

BlockAddr(k) == 64 * k

\* my_Allocator::allocate returns `this`: the address of the allocator object.
MyAAddr == BlockAddr(0) + 8

HeapAddrs == {BlockAddr(k) : k \in Blocks}

Addrs == HeapAddrs \cup {MyAAddr}

BlockOf(addr) == addr \div 64

\* The static buffers the protocol-test classes return, and the block the
\* default do_allocate returns for a zero-byte request.
IptBuf == BlockAddr(0) + 16

AptBuf == BlockAddr(0) + 24

AptDoBuf == BlockAddr(0) + 32

ZeroSizeBlock == BlockAddr(0) + 40

----------------------------------------------------------------------------
(* Types *)

DiamondClasses == {"my_VirtualBase", "my_LeftBase", "my_RightBase", "my_MostDerived"}

\* The classes objects are created of, and the scalar types of the operator test.
ObjectClasses ==
    {"my_Class1", "my_Class2", "my_Class3", "my_MostDerived", "my_Type",
     "my_ClassThatMayThrowFromConstructor"}

ScalarTypes == {"char", "short", "int", "double", "X15"}

SizeOf(t) ==
    CASE t = "char" -> 1
      [] t = "short" -> 2
      [] t = "int" -> 4
      [] t = "double" -> 8
      [] t = "X15" -> 15
      [] t = "my_Class1" -> 1
      [] t = "my_Class2" -> 8
      [] t = "my_Class3" -> 8
      [] t = "my_MostDerived" -> 48
      [] t = "my_Type" -> 16
      [] t = "my_ClassThatMayThrowFromConstructor" -> 1

\* The static types through which a pointer to an object of class c can be held.
StaticTypes(c) ==
    CASE c = "my_Class3" -> {"my_Class3", "my_Class3Base"}
      [] c = "my_MostDerived" -> DiamondClasses
      [] OTHER -> {c}

\* Offset of the sub-object of static type s inside a complete object of class c.
Offset(s, c) ==
    CASE c = "my_MostDerived" /\ s = "my_RightBase" -> 16
      [] c = "my_MostDerived" /\ s = "my_VirtualBase" -> 32
      [] OTHER -> 0

\* A class with at least one virtual function (here: a virtual destructor).
IsPolymorphic(s) ==
    s \in {"my_Class2", "my_Class3Base", "my_Class3"} \cup DiamondClasses

\* Mutant of DtorChain: the destructor is not dispatched virtually, so the
\* destructor of the pointer's static type runs.
DtorChain_NotVirtual(s, c) ==
    CASE s = "my_Class3" -> <<"my_Class3", "my_Class3Base">>
      [] s = "my_MostDerived" ->
             <<"my_MostDerived", "my_RightBase", "my_LeftBase", "my_VirtualBase">>
      [] OTHER -> <<s>>

\* The destructors `p->~S()` runs for a complete object of class c, in order:
\* a virtual destructor dispatches to the most-derived class, whose destructor
\* body is followed by the destructors of its bases in reverse construction order.
DtorChain(s, c) ==
    LET d == IF IsPolymorphic(s) THEN c ELSE s IN
    CASE d = "my_Class3" -> <<"my_Class3", "my_Class3Base">>
      [] d = "my_MostDerived" ->
             <<"my_MostDerived", "my_RightBase", "my_LeftBase", "my_VirtualBase">>
      [] OTHER -> <<d>>

\* The constructors run for a complete object of class c, in order.
CtorChain(c) ==
    CASE c = "my_Class3" -> <<"my_Class3Base", "my_Class3">>
      [] c = "my_MostDerived" ->
             <<"my_VirtualBase", "my_LeftBase", "my_RightBase", "my_MostDerived">>
      [] OTHER -> <<c>>

----------------------------------------------------------------------------
(* The machine state operators work on: the variables as one record, with  *)
(* the registers `ret` (returned pointer) and `exc` (exception in flight). *)

State ==
    [nda |-> nda, mya |-> mya, hdr |-> hdr, inUse |-> inUse, bsize |-> bsize,
     objs |-> objs, ctr |-> ctr, testStatus |-> testStatus, ub |-> ub,
     log |-> <<>>, ret |-> 0, exc |-> "none"]

Logged(s, e) == [s EXCEPT !.log = Append(@, e)]

\* `throw x`: the exception x is in flight.
Thrown(s, x) ==
    Logged([s EXCEPT !.exc = x], [ev |-> "throw", who |-> x, arg |-> 0, ret |-> 0])

\* aSsErT(condition, ...): ASSERT(X) is aSsErT(!(X), ...); a failed assertion
\* raises testStatus while it lies in 0 .. 100.
aSsErT(s, condition) ==
    IF condition /\ 0 <= s.testStatus /\ s.testStatus <= 100
    THEN [s EXCEPT !.testStatus = @ + 1]
    ELSE s

\* Mutant of NdaAllocate: a zero-size request returns before it is counted.
NdaAllocate_ZeroNotCounted(s, size, k) ==
    LET s1 == [s EXCEPT !.nda.d_count = @ + 1] IN
    IF size = 0
    THEN Logged([s EXCEPT !.ret = 0],
                [ev |-> "allocate", who |-> "nda", arg |-> size, ret |-> 0])
    ELSE IF k = 0
    THEN Thrown(Logged([s1 EXCEPT !.ret = 0],
                       [ev |-> "allocate", who |-> "nda", arg |-> size, ret |-> -1]),
                "bad_alloc")
    ELSE Logged([s1 EXCEPT !.hdr[k] = "MAGIC", !.inUse = @ \cup {k},
                           !.bsize[k] = size, !.ret = BlockAddr(k)],
                [ev |-> "allocate", who |-> "nda", arg |-> size, ret |-> BlockAddr(k)])

\* my_NewDeleteAllocator::allocate(size); global operator new hands out block k,
\* or throws std::bad_alloc when k = 0 (no block is free).
NdaAllocate(s, size, k) ==
    LET s1 == [s EXCEPT !.nda.d_count = @ + 1] IN
    IF size = 0
    THEN Logged([s1 EXCEPT !.ret = 0],
                [ev |-> "allocate", who |-> "nda", arg |-> size, ret |-> 0])
    ELSE IF k = 0
    THEN Thrown(Logged([s1 EXCEPT !.ret = 0],
                       [ev |-> "allocate", who |-> "nda", arg |-> size, ret |-> -1]),
                "bad_alloc")
    ELSE Logged([s1 EXCEPT !.hdr[k] = "MAGIC", !.inUse = @ \cup {k},
                           !.bsize[k] = size, !.ret = BlockAddr(k)],
                [ev |-> "allocate", who |-> "nda", arg |-> size, ret |-> BlockAddr(k)])

\* Mutant of NdaDeallocate: the null pointer is not tested for.
NdaDeallocate_NoNullCheck(s, address, junk) ==
    LET s1 == Logged([s EXCEPT !.nda.d_count = @ + 1],
                     [ev |-> "deallocate", who |-> "nda", arg |-> address, ret |-> 0])
        k == BlockOf(address)
    IN
    IF address \in HeapAddrs /\ k \in s1.inUse
    THEN LET s2 == aSsErT(s1, ~(s1.hdr[k] = "MAGIC")) IN
         [s2 EXCEPT !.hdr[k] = "DELETED", !.inUse = @ \ {k}, !.bsize[k] = 0]
    ELSE [aSsErT(s1, ~(junk = "MAGIC")) EXCEPT !.ub = TRUE]

\* Mutant of NdaDeallocate: the block is marked DELETED but never handed back
\* to global operator delete.
NdaDeallocate_Leaks(s, address, junk) ==
    LET s1 == Logged([s EXCEPT !.nda.d_count = @ + 1],
                     [ev |-> "deallocate", who |-> "nda", arg |-> address, ret |-> 0])
        k == BlockOf(address)
    IN
    IF address = 0 THEN s1
    ELSE IF address \in HeapAddrs /\ k \in s1.inUse
    THEN LET s2 == aSsErT(s1, ~(s1.hdr[k] = "MAGIC")) IN
         [s2 EXCEPT !.hdr[k] = "DELETED"]
    ELSE [aSsErT(s1, ~(junk = "MAGIC")) EXCEPT !.ub = TRUE]

\* Mutant of NdaDeallocate: the call is counted only after the null test.
NdaDeallocate_NotCounted(s, address, junk) ==
    LET s1 == Logged(s, [ev |-> "deallocate", who |-> "nda", arg |-> address, ret |-> 0])
        k == BlockOf(address)
    IN
    IF address = 0 THEN [s1 EXCEPT !.nda.d_count = @ + 1]
    ELSE IF address \in HeapAddrs /\ k \in s1.inUse
    THEN LET s2 == aSsErT(s1, ~(s1.hdr[k] = "MAGIC")) IN
         [s2 EXCEPT !.hdr[k] = "DELETED", !.inUse = @ \ {k}, !.bsize[k] = 0]
    ELSE [aSsErT(s1, ~(junk = "MAGIC")) EXCEPT !.ub = TRUE]

\* Mutant of NdaDeallocate: a null pointer returns before the call is counted.
NdaDeallocate_NullNotCounted(s, address, junk) ==
    LET s0 == Logged(s, [ev |-> "deallocate", who |-> "nda", arg |-> address, ret |-> 0])
        s1 == [s0 EXCEPT !.nda.d_count = @ + 1]
        k == BlockOf(address)
    IN
    IF address = 0 THEN s0
    ELSE IF address \in HeapAddrs /\ k \in s1.inUse
    THEN LET s2 == aSsErT(s1, ~(s1.hdr[k] = "MAGIC")) IN
         [s2 EXCEPT !.hdr[k] = "DELETED", !.inUse = @ \ {k}, !.bsize[k] = 0]
    ELSE [aSsErT(s1, ~(junk = "MAGIC")) EXCEPT !.ub = TRUE]

\* my_NewDeleteAllocator::deallocate(address).  An address that is not the
\* start of a block in use makes the read of the header word and the call of
\* global operator delete undefined: `junk` is what the ASSERT happens to see.
NdaDeallocate(s, address, junk) ==
    LET s1 == Logged([s EXCEPT !.nda.d_count = @ + 1],
                     [ev |-> "deallocate", who |-> "nda", arg |-> address, ret |-> 0])
        k == BlockOf(address)
    IN
    IF address = 0 THEN s1
    ELSE IF address \in HeapAddrs /\ k \in s1.inUse
    THEN LET s2 == aSsErT(s1, ~(s1.hdr[k] = "MAGIC")) IN
         [s2 EXCEPT !.hdr[k] = "DELETED", !.inUse = @ \ {k}, !.bsize[k] = 0]
    ELSE [aSsErT(s1, ~(junk = "MAGIC")) EXCEPT !.ub = TRUE]

\* Mutant of MyaAllocate: the argument is not recorded in d_arg.
MyaAllocate_ArgNotRecorded(s, size) ==
    Logged([s EXCEPT !.mya.d_fun = 1,
                     !.mya.d_allocateCount = @ + 1,
                     !.ret = IF size # 0 THEN MyAAddr ELSE 0],
           [ev |-> "allocate", who |-> "mya", arg |-> size,
            ret |-> IF size # 0 THEN MyAAddr ELSE 0])

\* my_Allocator::allocate(s)
MyaAllocate(s, size) ==
    Logged([s EXCEPT !.mya.d_fun = 1, !.mya.d_arg = size,
                     !.mya.d_allocateCount = @ + 1,
                     !.ret = IF size # 0 THEN MyAAddr ELSE 0],
           [ev |-> "allocate", who |-> "mya", arg |-> size,
            ret |-> IF size # 0 THEN MyAAddr ELSE 0])

\* Mutant of MyaDeallocate: the body of allocate was pasted in, so the call is
\* recorded as an allocate call.
MyaDeallocate_RecordedAsAllocate(s, address) ==
    Logged([s EXCEPT !.mya.d_fun = 1, !.mya.d_allocateCount = @ + 1],
           [ev |-> "deallocate", who |-> "mya", arg |-> address, ret |-> 0])

\* my_Allocator::deallocate(void *)
MyaDeallocate(s, address) ==
    Logged([s EXCEPT !.mya.d_fun = 2, !.mya.d_deallocateCount = @ + 1],
           [ev |-> "deallocate", who |-> "mya", arg |-> address, ret |-> 0])

\* Mutant of IptAllocate: the call is not recorded (no markDoneVal).
IptAllocate_NotMarked(s, size) == [s EXCEPT !.ret = IptBuf]

\* IndirectProtocolTest::allocate(size_type): markDoneVal records the call.
IptAllocate(s, size) ==
    Logged([s EXCEPT !.ret = IptBuf],
           [ev |-> "allocate", who |-> "ipt", arg |-> size, ret |-> IptBuf])

\* IndirectProtocolTest::deallocate(void *)
IptDeallocate(s, address) ==
    Logged(s, [ev |-> "deallocate", who |-> "ipt", arg |-> address, ret |-> 0])

\* AllocatorProtocolTest::allocate(size_type)
AptAllocate(s, size) ==
    Logged([s EXCEPT !.ret = AptBuf],
           [ev |-> "allocate", who |-> "apt", arg |-> size, ret |-> AptBuf])

\* AllocatorProtocolTest::deallocate(void *)
AptDeallocate(s, address) ==
    Logged(s, [ev |-> "deallocate", who |-> "apt", arg |-> address, ret |-> 0])

\* AllocatorProtocolTest::do_allocate(std::size_t, std::size_t)
AptDoAllocate(s, bytes, alignment) ==
    Logged([s EXCEPT !.ret = AptDoBuf],
           [ev |-> "do_allocate", who |-> "apt", arg |-> bytes, ret |-> AptDoBuf])

\* AllocatorProtocolTest::do_deallocate(void *, std::size_t, std::size_t)
AptDoDeallocate(s, address, bytes, alignment) ==
    Logged(s, [ev |-> "do_deallocate", who |-> "apt", arg |-> address, ret |-> 0])

\* a.allocate(size) and a.deallocate(address): the virtual calls.
Allocate(a, s, size, k) ==
    CASE a = "nda" -> NdaAllocate(s, size, k)
      [] a = "mya" -> MyaAllocate(s, size)
      [] a = "ipt" -> IptAllocate(s, size)
      [] a = "apt" -> AptAllocate(s, size)

Deallocate(a, s, address, junk) ==
    CASE a = "nda" -> NdaDeallocate(s, address, junk)
      [] a = "mya" -> MyaDeallocate(s, address)
      [] a = "ipt" -> IptDeallocate(s, address)
      [] a = "apt" -> AptDeallocate(s, address)

\* bslma::Allocator::do_allocate, the default implementation: it calls the
\* overridden allocate, and answers a zero-byte request that allocate answered
\* with a null pointer with the address of one fixed block.
DefaultDoAllocate(a, s, bytes, alignment, k) ==
    LET s1 == Allocate(a, s, bytes, k) IN
    IF s1.exc = "none" /\ bytes = 0 /\ s1.ret = 0
    THEN [s1 EXCEPT !.ret = ZeroSizeBlock]
    ELSE s1

\* bslma::Allocator::do_deallocate, the default implementation: it calls the
\* overridden deallocate; a zero-size block is deallocated as a null pointer.
DefaultDoDeallocate(a, s, address, bytes, alignment, junk) ==
    Deallocate(a, s, IF bytes = 0 THEN 0 ELSE address, junk)

\* The virtual calls do_allocate and do_deallocate: AllocatorProtocolTest
\* overrides them, the other allocators inherit the defaults.
DoAllocate(a, s, bytes, alignment, k) ==
    IF a = "apt" THEN AptDoAllocate(s, bytes, alignment)
    ELSE DefaultDoAllocate(a, s, bytes, alignment, k)

DoDeallocate(a, s, address, bytes, alignment, junk) ==
    IF a = "apt" THEN AptDoDeallocate(s, address, bytes, alignment)
    ELSE DefaultDoDeallocate(a, s, address, bytes, alignment, junk)

\* bsl::memory_resource::allocate(bytes, alignment) and
\* bsl::memory_resource::deallocate(p, bytes, alignment)
ResourceAllocate(a, s, bytes, alignment, k) == DoAllocate(a, s, bytes, alignment, k)

ResourceDeallocate(a, s, address, bytes, alignment, junk) ==
    DoDeallocate(a, s, address, bytes, alignment, junk)

----------------------------------------------------------------------------
(* Constructors and destructors of the test classes *)

\* The body of class c's constructor for the object at address b, built with
\* allocator a; k is the heap block a nested allocation receives.
CtorBody(c, s, b, a, k) ==
    LET s1 == Logged(s, [ev |-> "ctor", who |-> c, arg |-> b, ret |-> 0]) IN
    CASE c \in {"my_Class1", "my_Class2"} -> [s1 EXCEPT !.ctr.globalObjectStatus = 1]
      [] c = "my_Class3" -> [s1 EXCEPT !.ctr.class3ObjectCount = @ + 1]
      [] c = "my_VirtualBase" -> [s1 EXCEPT !.ctr.virtualBaseObjectCount = 1]
      [] c = "my_LeftBase" -> [s1 EXCEPT !.ctr.leftBaseObjectCount = 1]
      [] c = "my_RightBase" -> [s1 EXCEPT !.ctr.rightBaseObjectCount = 1]
      [] c = "my_MostDerived" -> [s1 EXCEPT !.ctr.mostDerivedObjectCount = 1]
      [] c = "my_Type" ->
             LET s2 == Allocate(a, s1, 5, k) IN
             IF s2.exc # "none" THEN s2
             ELSE [s2 EXCEPT !.objs[b].stuff = s2.ret, !.objs[b].al = a]
      [] c = "my_ClassThatMayThrowFromConstructor" ->
             IF excBuild THEN Thrown(s1, "int 13") ELSE s1
      [] OTHER -> s1

\* Mutant of DtorBody: ~my_RightBase does not reset rightBaseObjectCount.
DtorBody_RightBaseKeepsCount(c, s, b, junk) ==
    LET s1 ==
          CASE c \in {"my_Class1", "my_Class2"} -> [s EXCEPT !.ctr.globalObjectStatus = 0]
            [] c = "my_Class3" -> [s EXCEPT !.ctr.class3ObjectCount = @ - 1]
            [] c = "my_VirtualBase" -> [s EXCEPT !.ctr.virtualBaseObjectCount = 0]
            [] c = "my_LeftBase" -> [s EXCEPT !.ctr.leftBaseObjectCount = 0]
            [] c = "my_MostDerived" -> [s EXCEPT !.ctr.mostDerivedObjectCount = 0]
            [] c = "my_Type" -> Deallocate(s.objs[b].al, s, s.objs[b].stuff, junk)
            [] OTHER -> s
    IN Logged(s1, [ev |-> "dtor", who |-> c, arg |-> b, ret |-> 0])

\* Mutant of DtorBody: ~my_Type does not hand d_stuff_p back to its allocator.
DtorBody_TypeKeepsStuff(c, s, b, junk) ==
    LET s1 ==
          CASE c \in {"my_Class1", "my_Class2"} -> [s EXCEPT !.ctr.globalObjectStatus = 0]
            [] c = "my_Class3" -> [s EXCEPT !.ctr.class3ObjectCount = @ - 1]
            [] c = "my_VirtualBase" -> [s EXCEPT !.ctr.virtualBaseObjectCount = 0]
            [] c = "my_LeftBase" -> [s EXCEPT !.ctr.leftBaseObjectCount = 0]
            [] c = "my_RightBase" -> [s EXCEPT !.ctr.rightBaseObjectCount = 0]
            [] c = "my_MostDerived" -> [s EXCEPT !.ctr.mostDerivedObjectCount = 0]
            [] OTHER -> s
    IN Logged(s1, [ev |-> "dtor", who |-> c, arg |-> b, ret |-> 0])

\* The body of class c's destructor for the object at address b; the "dtor"
\* event marks its completion.
DtorBody(c, s, b, junk) ==
    LET s1 ==
          CASE c \in {"my_Class1", "my_Class2"} -> [s EXCEPT !.ctr.globalObjectStatus = 0]
            [] c = "my_Class3" -> [s EXCEPT !.ctr.class3ObjectCount = @ - 1]
            [] c = "my_VirtualBase" -> [s EXCEPT !.ctr.virtualBaseObjectCount = 0]
            [] c = "my_LeftBase" -> [s EXCEPT !.ctr.leftBaseObjectCount = 0]
            [] c = "my_RightBase" -> [s EXCEPT !.ctr.rightBaseObjectCount = 0]
            [] c = "my_MostDerived" -> [s EXCEPT !.ctr.mostDerivedObjectCount = 0]
            [] c = "my_Type" -> Deallocate(s.objs[b].al, s, s.objs[b].stuff, junk)
            [] OTHER -> s
    IN Logged(s1, [ev |-> "dtor", who |-> c, arg |-> b, ret |-> 0])

RECURSIVE RunCtors(_, _, _, _, _)
RunCtors(chain, s, b, a, k) ==
    IF chain = <<>> \/ s.exc # "none" THEN s
    ELSE RunCtors(Tail(chain), CtorBody(Head(chain), s, b, a, k), b, a, k)

RECURSIVE RunDtors(_, _, _, _)
RunDtors(chain, s, b, junk) ==
    IF chain = <<>> \/ s.exc # "none" THEN s
    ELSE RunDtors(Tail(chain), DtorBody(Head(chain), s, b, junk), b, junk)

\* `new (b) c`: construct a complete object of class c in the storage at b.
\* No object exists there if a constructor throws.
Construct(c, s, b, a, k) ==
    LET s1 == [s EXCEPT !.objs[b] = [cls |-> c, stuff |-> 0, al |-> "none"]]
        s2 == RunCtors(CtorChain(c), s1, b, a, k)
    IN
    IF s2.exc # "none" THEN [s2 EXCEPT !.objs[b] = NoObj] ELSE s2

\* The address of the complete object that holds the sub-object of static
\* type st at address p (0 when p points into no live object).
CompleteObject(s, p, st) ==
    LET cand == {b \in Addrs : /\ s.objs[b].cls # "none"
                               /\ st \in StaticTypes(s.objs[b].cls)
                               /\ b + Offset(st, s.objs[b].cls) = p}
    IN IF cand = {} THEN 0 ELSE CHOOSE b \in cand : TRUE

\* `p->~st()` for a pointer p of static type st; the object's lifetime ends.
Destroy(s, p, st, junk) ==
    LET b == CompleteObject(s, p, st)
        s1 == RunDtors(DtorChain(st, s.objs[b].cls), s, b, junk)
    IN [s1 EXCEPT !.objs[b] = NoObj]

----------------------------------------------------------------------------
(* bslma::Allocator's utilities and the allocator-taking operators new and *)
(* delete.                                                                 *)

\* Mutant of DeleteObject: a null pointer is not filtered out but handed to
\* deallocate.
DeleteObject_NullReachesDeallocate(a, s, p, st, junk) ==
    IF p = 0 THEN Deallocate(a, s, p, junk)
    ELSE LET address == IF IsPolymorphic(st) THEN CompleteObject(s, p, st) ELSE p
             s1 == Destroy(s, p, st, junk)
         IN IF s1.exc # "none" THEN s1 ELSE Deallocate(a, s1, address, junk)

\* template <class TYPE> void Allocator::deleteObject(const TYPE *object)
DeleteObject(a, s, p, st, junk) ==
    IF p = 0 THEN s
    ELSE LET address == IF IsPolymorphic(st) THEN CompleteObject(s, p, st) ELSE p
             s1 == Destroy(s, p, st, junk)
         IN IF s1.exc # "none" THEN s1 ELSE Deallocate(a, s1, address, junk)

\* void Allocator::deleteObject(bsl::nullptr_t)
DeleteObjectNullptr(a, s) == s

\* Mutant of DeleteObjectRaw: the footprint is deallocated without the
\* destructor having been called.
DeleteObjectRaw_NoDestructor(a, s, p, st, junk) ==
    IF p = 0 THEN s ELSE Deallocate(a, s, p, junk)

\* template <class TYPE> void Allocator::deleteObjectRaw(const TYPE *object)
DeleteObjectRaw(a, s, p, st, junk) ==
    IF p = 0 THEN s
    ELSE LET s1 == Destroy(s, p, st, junk)
         IN IF s1.exc # "none" THEN s1 ELSE Deallocate(a, s1, p, junk)

\* void Allocator::deleteObjectRaw(bsl::nullptr_t)
DeleteObjectRawNullptr(a, s) == s

\* void *operator new(std::size_t size, bslma::Allocator& basicAllocator)
OperatorNew(a, s, size, k) == Allocate(a, s, size, k)

\* void operator delete(void *address, bslma::Allocator& basicAllocator)
OperatorDelete(a, s, address, junk) == Deallocate(a, s, address, junk)

\* Mutant of NewExpr: a failure of operator new is handled like a failure of
\* the constructor, by a call of the matching operator delete.
NewExpr_DeletesOnAllocationFailure(a, s, t, k, k2, junk) ==
    LET s1 == OperatorNew(a, s, SizeOf(t), k) IN
    IF s1.exc # "none" THEN [OperatorDelete(a, s1, 0, junk) EXCEPT !.ret = 0]
    ELSE IF t \in ScalarTypes THEN s1
    ELSE LET p == s1.ret
             s2 == Construct(t, s1, p, a, k2)
         IN IF s2.exc # "none"
            THEN [OperatorDelete(a, s2, p, junk) EXCEPT !.ret = 0]
            ELSE [s2 EXCEPT !.ret = p]

\* Mutant of NewExpr: the matching operator delete is called whether or not
\* the constructor throws.
NewExpr_AlwaysDeletes(a, s, t, k, k2, junk) ==
    LET s1 == OperatorNew(a, s, SizeOf(t), k) IN
    IF s1.exc # "none" THEN s1
    ELSE IF t \in ScalarTypes THEN s1
    ELSE LET p == s1.ret
             s2 == Construct(t, s1, p, a, k2)
         IN IF s2.exc # "none"
            THEN [OperatorDelete(a, s2, p, junk) EXCEPT !.ret = 0]
            ELSE [OperatorDelete(a, s2, p, junk) EXCEPT !.ret = p]

\* The new-expression `new (a) t(...)`: operator new, then the constructor;
\* if the constructor throws, the matching operator delete is called and the
\* exception continues to the caller, which receives no pointer.
NewExpr(a, s, t, k, k2, junk) ==
    LET s1 == OperatorNew(a, s, SizeOf(t), k) IN
    IF s1.exc # "none" THEN s1
    ELSE IF t \in ScalarTypes THEN s1
    ELSE LET p == s1.ret
             s2 == Construct(t, s1, p, a, k2)
         IN IF s2.exc # "none"
            THEN [OperatorDelete(a, s2, p, junk) EXCEPT !.ret = 0]
            ELSE [s2 EXCEPT !.ret = p]

----------------------------------------------------------------------------
(* Allocator-aware value types.  An object holds a value and the allocator *)
(* it was built with; its string attribute keeps a buffer obtained from    *)
(* that allocator once a string too long for the short-string buffer has   *)
(* been stored in it.                                                      *)

\* The test allocators of the test driver, and the global allocator.
TestAllocators == {"ga", "da", "fa", "s1", "s2"}

\* The allocators an object is built with.
ObjectAllocators == {"da", "s1", "s2"}

\* bslma::DefaultAllocatorGuard dag(&da)
DefaultAllocator == "da"

\* The allocator the footprints of the objects come from.
FootprintAllocator == "fa"

\* The test driver's objects: mX is the object under test, mF the other one.
TestObjects == {"mX", "mF"}

\* How a constructor is given its allocator: not at all, as a
\* default-constructed allocator_type, or as the address of a test allocator.
AllocatorConfigs == {"none", "allocator_type()"} \cup ObjectAllocators

Descriptions == {"", "LONG_STRING"}

UtcOffsets == {0, 1}

AAValues == [utcOffsetInSeconds : UtcOffsets, description : Descriptions]

\* The default-constructed value.
DefaultValue == [utcOffsetInSeconds |-> 0, description |-> ""]

\* A slot of the test driver that holds no object.
NoAAObj == [value |-> DefaultValue, alloc |-> "none", buffer |-> FALSE]

\* The two swap operations of the test driver.
SwapOps == {"swap", "free_swap"}

\* No swap preceded the last operation.
NoSwap == [x |-> "none", y |-> "none", aaobjs |-> [x \in TestObjects |-> NoAAObj]]

\* A string of this value does not fit the short-string buffer.
IsLong(d) == d = "LONG_STRING"

\* bslma::TestAllocator::allocate, for a non-zero size
TaAllocate(w, a) ==
    [w EXCEPT !.tallocs[a] = [numBlocksInUse |-> @.numBlocksInUse + 1,
                               numBlocksTotal |-> @.numBlocksTotal + 1]]

\* bslma::TestAllocator::deallocate, for a block of the allocator
TaDeallocate(w, a) ==
    [w EXCEPT !.tallocs[a].numBlocksInUse = @ - 1]

\* allocator_type(), and the allocator_type made from a test allocator
AllocatorType(cfg) ==
    IF cfg \in ObjectAllocators THEN cfg ELSE DefaultAllocator

\* d_description = desc
StringAssign(w, x, desc) ==
    LET o == w.aaobjs[x]
        w1 == IF IsLong(desc) /\ ~o.buffer THEN TaAllocate(w, o.alloc) ELSE w
    IN [w1 EXCEPT !.aaobjs[x].value.description = desc,
                  !.aaobjs[x].buffer = o.buffer \/ IsLong(desc)]

\* Obj(utcOffsetInSeconds, dstInEffectFlag, description, allocator)
ValueCtor(w, x, v, a) ==
    LET w1 == IF IsLong(v.description) THEN TaAllocate(w, a) ELSE w
    IN [w1 EXCEPT !.aaobjs[x] = [value |-> v, alloc |-> a,
                                 buffer |-> IsLong(v.description)]]

CopyCtor_CopiesAllocator(w, x, y, cfg) ==
    ValueCtor(w, x, w.aaobjs[y].value,
              IF cfg \in ObjectAllocators THEN cfg ELSE w.aaobjs[y].alloc)

CopyCtor_AlsoAllocatesFromDefault(w, x, y, cfg) ==
    LET w1 == ValueCtor(w, x, w.aaobjs[y].value, AllocatorType(cfg))
    IN IF IsLong(w.aaobjs[y].value.description)
       THEN TaDeallocate(TaAllocate(w1, DefaultAllocator), DefaultAllocator)
       ELSE w1

\* Obj(original, allocator = allocator_type())
CopyCtor(w, x, y, cfg) ==
    ValueCtor(w, x, w.aaobjs[y].value, AllocatorType(cfg))

MoveCtor_AlwaysCopies(w, x, y, cfg) ==
    ValueCtor(w, x, w.aaobjs[y].value,
              IF cfg = "none" THEN w.aaobjs[y].alloc ELSE AllocatorType(cfg))

\* Obj(MovableRef<Obj> original) and Obj(MovableRef<Obj> original, allocator)
MoveCtor(w, x, y, cfg) ==
    LET src == w.aaobjs[y]
        a == IF cfg = "none" THEN src.alloc ELSE AllocatorType(cfg)
    IN IF a = src.alloc
       THEN [w EXCEPT !.aaobjs[x] = [value |-> src.value, alloc |-> a,
                                     buffer |-> src.buffer],
                      !.aaobjs[y].value.description = "",
                      !.aaobjs[y].buffer = FALSE]
       ELSE ValueCtor(w, x, src.value, a)

CopyAssign_TakesAllocator(w, x, y) ==
    [w EXCEPT !.aaobjs[x] = [value |-> w.aaobjs[y].value,
                             alloc |-> w.aaobjs[y].alloc,
                             buffer |-> w.aaobjs[x].buffer],
              !.ret = x]

\* Obj& operator=(const Obj& rhs)
CopyAssign(w, x, y) ==
    IF x = y
    THEN [w EXCEPT !.ret = x]
    ELSE [StringAssign(w, x, w.aaobjs[y].value.description)
             EXCEPT !.aaobjs[x].value.utcOffsetInSeconds =
                        w.aaobjs[y].value.utcOffsetInSeconds,
                    !.ret = x]

MoveAssign_AlwaysCopies(w, x, y) == CopyAssign(w, x, y)

\* Obj& operator=(MovableRef<Obj> rhs)
MoveAssign(w, x, y) ==
    LET tgt == w.aaobjs[x]
        src == w.aaobjs[y]
    IN IF x = y
       THEN [w EXCEPT !.ret = x]
       ELSE IF tgt.alloc = src.alloc
       THEN [(IF tgt.buffer THEN TaDeallocate(w, tgt.alloc) ELSE w)
                EXCEPT !.aaobjs[x].value = src.value,
                       !.aaobjs[x].buffer = src.buffer,
                       !.aaobjs[y].value.description = "",
                       !.aaobjs[y].buffer = FALSE,
                       !.ret = x]
       ELSE CopyAssign(w, x, y)

MemberSwap_OneWay(w, x, y) ==
    [w EXCEPT !.aaobjs[x].value = w.aaobjs[y].value,
              !.aaobjs[x].buffer = w.aaobjs[y].buffer,
              !.aaobjs[y].buffer = w.aaobjs[x].buffer]

\* void swap(Obj& other), for objects of one allocator
MemberSwap(w, x, y) ==
    [w EXCEPT !.aaobjs[x].value = w.aaobjs[y].value,
              !.aaobjs[x].buffer = w.aaobjs[y].buffer,
              !.aaobjs[y].value = w.aaobjs[x].value,
              !.aaobjs[y].buffer = w.aaobjs[x].buffer]

\* void swap(Obj& a, Obj& b): a member swap when the allocators are equal,
\* else each object is swapped with a copy of the other made with its own
\* allocator, and the copies are destroyed.
FreeSwap(w, x, y) ==
    LET ox == w.aaobjs[x]
        oy == w.aaobjs[y]
        w1 == IF IsLong(oy.value.description) THEN TaAllocate(w, ox.alloc) ELSE w
        w2 == IF IsLong(ox.value.description) THEN TaAllocate(w1, oy.alloc) ELSE w1
        w3 == IF ox.buffer THEN TaDeallocate(w2, ox.alloc) ELSE w2
        w4 == IF oy.buffer THEN TaDeallocate(w3, oy.alloc) ELSE w3
    IN IF ox.alloc = oy.alloc
       THEN MemberSwap(w, x, y)
       ELSE [w4 EXCEPT !.aaobjs[x].value = oy.value,
                       !.aaobjs[x].buffer = IsLong(oy.value.description),
                       !.aaobjs[y].value = ox.value,
                       !.aaobjs[y].buffer = IsLong(ox.value.description)]

\* void setDescription(const bsl::string_view& value)
SetDescription(w, x, desc) == StringAssign(w, x, desc)

\* void setUtcOffsetInSeconds(int value)
SetUtcOffsetInSeconds(w, x, n) ==
    [w EXCEPT !.aaobjs[x].value.utcOffsetInSeconds = n]

\* ~Obj()
Dtor(w, x) ==
    [(IF w.aaobjs[x].buffer THEN TaDeallocate(w, w.aaobjs[x].alloc) ELSE w)
        EXCEPT !.aaobjs[x] = NoAAObj]

----------------------------------------------------------------------------
(* ball::Record: a log record holds its fixed fields, its user-defined     *)
(* fields and its attributes, and the allocator that supplies its memory.  *)

\* The allocators of the client: two that are installed as the default
\* allocator in turn, and one passed to constructors.
RecAllocators == {"da", "db", "oa"}

DefaultAllocators == {"da", "db"}

\* The records of the client, named after the operands of operator==.
RecSlots == {"lhs", "rhs"}

\* Values of RecordAttributes (told apart by the message), of UserFields and
\* of the attribute container.
FixedFieldValues == {"", "msg"}

UserFieldValues == {<<>>, <<"u">>}

AttributeNames == {"a", "b"}

\* Attributes one record holds at most.
MaxAttributes == 1

NoRecord == [d_fixedFields |-> "", d_userFields |-> <<>>, d_attributes |-> <<>>,
             capacity |-> FALSE, d_allocator_p |-> "none"]

\* The address of a record's footprint and of the block its attribute vector
\* holds.
FootprintOf(r) == <<"record", r>>

VectorBlockOf(r) == <<"attributes", r>>

\* An allocator call made in the course of an operation.
RLogged(w, e) == [w EXCEPT !.log = Append(@, e)]

\* bslma::Default::allocator(basicAllocator)
DefaultAllocatorOr(w, basicAllocator) ==
    IF basicAllocator = "0" THEN w.rdefault ELSE basicAllocator

\* d_attributes takes a block when its first element is stored, keeps it
\* when cleared and gives it back when destroyed; the block comes from
\* d_allocator, which passes the request on to the allocator the record was
\* built with.
VectorStore(w, r, attrs) ==
    LET o == w.recs[r]
        w1 == IF ~o.capacity /\ attrs # <<>>
              THEN RLogged(w, [ev |-> "allocate", who |-> o.d_allocator_p,
                               arg |-> VectorBlockOf(r), by |-> "d_attributes"])
              ELSE w
    IN [w1 EXCEPT !.recs[r].d_attributes = attrs,
                  !.recs[r].capacity = o.capacity \/ attrs # <<>>]

\* Record(bslma::Allocator *basicAllocator = 0)
RecordCtor(w, r, basicAllocator) ==
    [w EXCEPT !.recs[r] = [d_fixedFields |-> "", d_userFields |-> <<>>,
                           d_attributes |-> <<>>, capacity |-> FALSE,
                           d_allocator_p |-> DefaultAllocatorOr(w, basicAllocator)]]

\* Record(fixedFields, userFields, basicAllocator = 0)
RecordValueCtor(w, r, fixedFields, userFields, basicAllocator) ==
    [w EXCEPT !.recs[r] = [d_fixedFields |-> fixedFields,
                           d_userFields |-> userFields,
                           d_attributes |-> <<>>, capacity |-> FALSE,
                           d_allocator_p |-> DefaultAllocatorOr(w, basicAllocator)]]

\* Record(const Record& original, basicAllocator = 0)
RecordCopyCtor(w, r, original, basicAllocator) ==
    LET w1 == [w EXCEPT !.recs[r] =
                   [d_fixedFields |-> w.recs[original].d_fixedFields,
                    d_userFields |-> w.recs[original].d_userFields,
                    d_attributes |-> <<>>, capacity |-> FALSE,
                    d_allocator_p |-> DefaultAllocatorOr(w, basicAllocator)]]
    IN VectorStore(w1, r, w.recs[original].d_attributes)

\* Record& operator=(const Record& rhs)
RecordAssign(w, r, rhs) ==
    IF r # rhs
    THEN [VectorStore(w, r, w.recs[rhs].d_attributes)
             EXCEPT !.recs[r].d_fixedFields = w.recs[rhs].d_fixedFields,
                    !.recs[r].d_userFields = w.recs[rhs].d_userFields,
                    !.ret = r]
    ELSE [w EXCEPT !.ret = r]

\* void addAttribute(const Attribute& attribute)
RecordAddAttribute(w, r, attribute) ==
    VectorStore(w, r, Append(w.recs[r].d_attributes, attribute))

\* void clear()
RecordClear(w, r) ==
    [w EXCEPT !.recs[r].d_fixedFields = "",
              !.recs[r].d_userFields = <<>>,
              !.recs[r].d_attributes = <<>>]

\* void setFixedFields(const RecordAttributes& fixedFields)
RecordSetFixedFields(w, r, fixedFields) ==
    [w EXCEPT !.recs[r].d_fixedFields = fixedFields]

\* void setCustomFields(const UserFields& userFields)
RecordSetCustomFields(w, r, userFields) ==
    [w EXCEPT !.recs[r].d_userFields = userFields]

\* ~Record(): the attribute vector gives back the block it holds
RecordDtor(w, r) ==
    LET o == w.recs[r]
        w1 == IF o.capacity
              THEN RLogged(w, [ev |-> "deallocate", who |-> o.d_allocator_p,
                               arg |-> VectorBlockOf(r), by |-> "d_attributes"])
              ELSE w
    IN [w1 EXCEPT !.recs[r] = NoRecord]

\* bslma::Allocator::deleteObjectRaw(object), called on allocator a
RecordDeleteObjectRaw(a, w, r) ==
    RLogged(RecordDtor(w, r), [ev |-> "deallocate", who |-> a,
                               arg |-> FootprintOf(r), by |-> "deleteObjectRaw"])

RecordDeleteObject_UsesDefault(w, r) == RecordDeleteObjectRaw(w.rdefault, w, r)

\* static void Record::deleteObject(const Record *object)
RecordDeleteObject(w, r) == RecordDeleteObjectRaw(w.recs[r].d_allocator_p, w, r)

RecordEq_FieldsOnly(w, lhs, rhs) ==
    [w EXCEPT !.ret =
        /\ w.recs[lhs].d_fixedFields = w.recs[rhs].d_fixedFields
        /\ w.recs[lhs].d_userFields = w.recs[rhs].d_userFields]

\* bool operator==(const Record& lhs, const Record& rhs)
RecordEq(w, lhs, rhs) ==
    [w EXCEPT !.ret =
        /\ w.recs[lhs].d_fixedFields = w.recs[rhs].d_fixedFields
        /\ w.recs[lhs].d_userFields = w.recs[rhs].d_userFields
        /\ w.recs[lhs].d_attributes = w.recs[rhs].d_attributes]

\* bool operator!=(const Record& lhs, const Record& rhs)
RecordNe(w, lhs, rhs) == [w EXCEPT !.ret = ~RecordEq(w, lhs, rhs).ret]

----------------------------------------------------------------------------
(* bsl::array<TYPE, SIZE>: SIZE elements held in d_data.                   *)

\* The largest SIZE the test driver instantiates in a run.
MaxSize == 3

\* The spec strings of the test driver, as sequences of characters.
ArrSpecs == {<<"A", "B", "C", "D", "E">>, <<"V", "U">>, <<>>}

\* TestFacility::create<TYPE>(0)
DefaultElement == "0"

\* The values the test driver assigns through at().
ElementValues == {"V", DefaultElement}

\* ggg(object, spec): the first characters of the spec, then default elements
Ggg(SIZE, spec) ==
    LET LENGTH == IF SIZE < Len(spec) THEN SIZE ELSE Len(spec)
    IN [SIZE |-> SIZE,
        d_data |-> [i \in 1..SIZE |-> IF i <= LENGTH THEN spec[i] ELSE DefaultElement]]

\* The address of the element at index pos, as an offset from d_data.
ElementAddress(pos) == pos

\* reference operator[](size_type position)
ArraySubscript(s, pos) == [s EXCEPT !.ret = ElementAddress(pos)]

ArrayAt_AcceptsSize(s, pos) ==
    IF pos > s.arr.SIZE
    THEN [s EXCEPT !.exc = "out_of_range"]
    ELSE [s EXCEPT !.ret = ElementAddress(pos)]

\* reference at(size_type position), const_reference at(size_type position) const
ArrayAt(s, pos) ==
    IF pos >= s.arr.SIZE
    THEN [s EXCEPT !.exc = "out_of_range"]
    ELSE [s EXCEPT !.ret = ElementAddress(pos)]

\* mX.at(pos) = value
ArrayAssignAt(s, pos, value) ==
    LET s1 == ArrayAt(s, pos)
    IN IF s1.exc # "none" THEN s1
       ELSE [s1 EXCEPT !.arr.d_data[s1.ret + 1] = value]

\* An array of no elements, before any test case has run.
ArrIdle ==
    /\ arr = Ggg(0, <<>>)
    /\ arlast = [op |-> "init", pos |-> 0, const |-> FALSE, ret |-> -1,
                 exc |-> "none", pre |-> arr]

----------------------------------------------------------------------------
(* s_baltst::MySequenceWithDoubleAttribute: a sequence of one nullable     *)
(* double attribute, reached through functors by id or by name.            *)

ATTRIBUTE_ID_ATTRIBUTE1 == 0

NUM_ATTRIBUTES == 1

ATTRIBUTE_INDEX_ATTRIBUTE1 == 0

\* The name of the attribute, as a sequence of characters.
Attribute1Name == <<"a", "t", "t", "r", "i", "b", "u", "t", "e", "1">>

\* ATTRIBUTE_INFO_ARRAY, indexed from ATTRIBUTE_INDEX_ATTRIBUTE1
ATTRIBUTE_INFO_ARRAY ==
    [i \in {ATTRIBUTE_INDEX_ATTRIBUTE1} |->
        [d_id |-> ATTRIBUTE_ID_ATTRIBUTE1, d_name_p |-> Attribute1Name,
         d_nameLength |-> Len(Attribute1Name)]]

\* The null pointer lookupAttributeInfo returns when nothing is found.
NullInfo == [d_id |-> -1, d_name_p |-> <<>>, d_nameLength |-> 0]

\* The first n characters of a name.
Prefix(name, n) == [i \in 1..n |-> name[i]]

\* lookupAttributeInfo(name, nameLength)
LookupAttributeInfo(name, nameLength) ==
    LET found == {i \in DOMAIN ATTRIBUTE_INFO_ARRAY :
                     /\ ATTRIBUTE_INFO_ARRAY[i].d_nameLength = nameLength
                     /\ ATTRIBUTE_INFO_ARRAY[i].d_name_p = Prefix(name, nameLength)}
    IN IF found = {} THEN NullInfo
       ELSE ATTRIBUTE_INFO_ARRAY[CHOOSE i \in found : TRUE]

\* Values of bdlb::NullableValue<double>.
NullDouble == [isNull |-> TRUE, value |-> 0]

NullableDoubles == {NullDouble} \cup {[isNull |-> FALSE, value |-> v] : v \in {1, 2}}

\* What a functor does with the attribute it is given: leave it, or store a
\* value; and the value it returns.
FunctorEffects ==
    {[stores |-> FALSE, value |-> NullDouble]}
        \cup {[stores |-> TRUE, value |-> v] : v \in NullableDoubles}

FunctorResults == {-1, 0, 7}

\* manipulator(&d_attribute1, info): the functor runs on the attribute
InvokeManipulator(f, s, index) ==
    [s EXCEPT !.calls = Append(@, [object |-> "d_attribute1",
                                   info |-> ATTRIBUTE_INFO_ARRAY[index]]),
              !.d_attribute1 = IF f.effect.stores THEN f.effect.value ELSE @,
              !.ret = f.result]

\* accessor(d_attribute1, info): the functor reads the attribute
InvokeAccessor(f, s, index) ==
    [s EXCEPT !.calls = Append(@, [object |-> "d_attribute1",
                                   info |-> ATTRIBUTE_INFO_ARRAY[index]]),
              !.ret = f.result]

ManipulateAttribute_AnyId(s, f, id) ==
    InvokeManipulator(f, s, ATTRIBUTE_INDEX_ATTRIBUTE1)

\* int manipulateAttribute(MANIPULATOR& manipulator, int id)
ManipulateAttribute(s, f, id) ==
    CASE id = ATTRIBUTE_ID_ATTRIBUTE1 ->
             InvokeManipulator(f, s, ATTRIBUTE_INDEX_ATTRIBUTE1)
      [] OTHER -> [s EXCEPT !.ret = -1]

\* int manipulateAttribute(MANIPULATOR& manipulator, const char *name, int nameLength)
ManipulateAttributeByName(s, f, name, nameLength) ==
    LET attributeInfo == LookupAttributeInfo(name, nameLength)
    IN IF attributeInfo = NullInfo
       THEN [s EXCEPT !.ret = -1]
       ELSE ManipulateAttribute(s, f, attributeInfo.d_id)

\* int accessAttribute(ACCESSOR& accessor, int id) const
AccessAttribute(s, f, id) ==
    CASE id = ATTRIBUTE_ID_ATTRIBUTE1 ->
             InvokeAccessor(f, s, ATTRIBUTE_INDEX_ATTRIBUTE1)
      [] OTHER -> [s EXCEPT !.ret = -1]

\* int accessAttribute(ACCESSOR& accessor, const char *name, int nameLength) const
AccessAttributeByName(s, f, name, nameLength) ==
    LET attributeInfo == LookupAttributeInfo(name, nameLength)
    IN IF attributeInfo = NullInfo
       THEN [s EXCEPT !.ret = -1]
       ELSE AccessAttribute(s, f, attributeInfo.d_id)

\* MySequenceWithDoubleAttribute(): the attribute is null
SeqIdle ==
    /\ seq = [d_attribute1 |-> NullDouble]
    /\ slast = [op |-> "init", f |-> [effect |-> [stores |-> FALSE, value |-> NullDouble],
                                     result |-> 0],
                id |-> -1, name |-> <<>>, nameLength |-> 0,
                ret |-> 0, calls |-> <<>>, pre |-> seq]

----------------------------------------------------------------------------
(* my_DoubleStack, the usage example of the allocator protocol: a stack of *)
(* doubles that keeps its elements in one block obtained from the          *)
(* allocator it was built with.                                            *)

\* enum { INITIAL_SIZE = 1, GROW_FACTOR = 2 }
INITIAL_SIZE == 1

GROW_FACTOR == 2

\* The allocators a stack is built with: the local `a` of the usage example
\* and the global myA that stands in when none is passed.
StackAllocators == {"a", "myA"}

\* The values pushed (1.25 and 1.5, in hundredths).
DoubleValues == {125, 150}

\* The content of an element that has not been written yet.
Uninitialized == "?"

NoStack ==
    [alive |-> FALSE, d_stack_p |-> 0, d_size |-> 0, d_length |-> 0,
     d_allocator_p |-> "0"]

StackLogged(w, e) == [w EXCEPT !.log = Append(@, e)]

\* ASSERT(X) in the stack's code: a failed assertion is recorded.
StackAssert(w, x) == IF x THEN w ELSE [w EXCEPT !.failed = TRUE]

\* my_NewDeleteAllocator::allocate(n * sizeof(double)) on allocator a; global
\* operator new hands out block k or throws std::bad_alloc (k = 0).
DsAllocate(w, a, n, k) ==
    LET w1 == [w EXCEPT !.d_count[a] = @ + 1] IN
    IF n = 0
    THEN StackLogged([w1 EXCEPT !.ret = 0],
                     [ev |-> "allocate", who |-> a, arg |-> n, ret |-> 0])
    ELSE IF k = 0
    THEN StackLogged([w1 EXCEPT !.ret = 0, !.exc = "bad_alloc"],
                     [ev |-> "allocate", who |-> a, arg |-> n, ret |-> -1])
    ELSE StackLogged([w1 EXCEPT !.owner[k] = a,
                                !.mem[k] = [i \in 1 .. n |-> Uninitialized],
                                !.ret = k],
                     [ev |-> "allocate", who |-> a, arg |-> n, ret |-> k])

\* my_NewDeleteAllocator::deallocate(address) on allocator a; an address that
\* is no outstanding block makes the behaviour undefined.
DsDeallocate(w, a, address) ==
    LET w1 == StackLogged([w EXCEPT !.d_count[a] = @ + 1],
                          [ev |-> "deallocate", who |-> a, arg |-> address, ret |-> 0])
    IN
    IF address = 0 THEN w1
    ELSE IF address \in Blocks /\ w1.owner[address] # "free"
    THEN [w1 EXCEPT !.owner[address] = "free", !.mem[address] = <<>>]
    ELSE [w1 EXCEPT !.ub = TRUE]

\* my_DoubleStack::my_DoubleStack(bslma::Allocator *basicAllocator); no object
\* exists if allocate throws.
DoubleStackCtor(w, basicAllocator, k) ==
    LET a == IF basicAllocator # "0" THEN basicAllocator ELSE "myA"
        w1 == [w EXCEPT !.stack = [alive |-> TRUE, d_stack_p |-> 0,
                                   d_size |-> INITIAL_SIZE, d_length |-> 0,
                                   d_allocator_p |-> a]]
        w2 == DsAllocate(StackAssert(w1, a # "0"), a, w1.stack.d_size, k)
    IN
    IF w2.exc # "none" THEN [w2 EXCEPT !.stack = NoStack]
    ELSE [w2 EXCEPT !.stack.d_stack_p = w2.ret]

\* my_DoubleStack::~my_DoubleStack()
DoubleStackDtor(w) ==
    LET w1 == StackAssert(w, /\ w.stack.d_allocator_p # "0"
                             /\ w.stack.d_stack_p # 0
                             /\ 0 <= w.stack.d_length
                             /\ 0 <= w.stack.d_size
                             /\ w.stack.d_length <= w.stack.d_size)
        w2 == DsDeallocate(w1, w.stack.d_allocator_p, w.stack.d_stack_p)
    IN [w2 EXCEPT !.stack = NoStack]

\* memcpy(dst, src, length * sizeof(double))
Memcpy(w, dst, src, length) ==
    [w EXCEPT !.mem[dst] = [i \in DOMAIN @ |->
                               IF i <= length THEN w.mem[src][i] ELSE @[i]]]

\* Mutant of Reallocate: the old block is given back before the new one is
\* asked for.
Reallocate_DeallocatesFirst(w, newSize, length, basicAllocator, k) ==
    LET w0 == StackAssert(w, /\ 1 <= newSize /\ 0 <= length
                             /\ basicAllocator # "0" /\ length <= newSize)
        tmp == w0.stack.d_stack_p
        w1 == DsDeallocate(w0, basicAllocator, tmp)
        w2 == DsAllocate(w1, basicAllocator, newSize, k)
    IN
    IF w2.exc # "none" THEN w2
    ELSE [[w2 EXCEPT !.stack.d_stack_p = w2.ret]
             EXCEPT !.mem[w2.ret] = [i \in DOMAIN @ |->
                                        IF i <= length THEN w.mem[tmp][i] ELSE @[i]]]

\* static void reallocate(double **array, int newSize, int length,
\*                        bslma::Allocator *basicAllocator), with array =
\* &d_stack_p.  When allocate throws, *array has not been assigned.
Reallocate(w, newSize, length, basicAllocator, k) ==
    LET w0 == StackAssert(w, /\ 1 <= newSize /\ 0 <= length
                             /\ basicAllocator # "0" /\ length <= newSize)
        tmp == w0.stack.d_stack_p
        w1 == DsAllocate(w0, basicAllocator, newSize, k)
    IN
    IF w1.exc # "none" THEN w1
    ELSE LET w2 == [w1 EXCEPT !.stack.d_stack_p = w1.ret]
             w3 == Memcpy(w2, w2.stack.d_stack_p, tmp, length)
         IN DsDeallocate(w3, basicAllocator, tmp)

\* void my_DoubleStack::increaseSize()
IncreaseSize(w, k) ==
    LET proposedNewSize == w.stack.d_size * GROW_FACTOR
        w1 == Reallocate(StackAssert(w, proposedNewSize > w.stack.d_length),
                         proposedNewSize, w.stack.d_length,
                         w.stack.d_allocator_p, k)
    IN
    IF w1.exc # "none" THEN w1
    ELSE [w1 EXCEPT !.stack.d_size = proposedNewSize]

\* void my_DoubleStack::push(double value)
Push(w, value, k) ==
    LET w1 == IF w.stack.d_length >= w.stack.d_size THEN IncreaseSize(w, k) ELSE w IN
    IF w1.exc # "none" THEN w1
    ELSE [w1 EXCEPT !.mem[w1.stack.d_stack_p][w1.stack.d_length + 1] = value,
                    !.stack.d_length = @ + 1]

\* No stack has been created and the heap is untouched.
StackIdle ==
    /\ stack = NoStack
    /\ sheap = [owner |-> [k \in Blocks |-> "free"],
                mem |-> [k \in Blocks |-> <<>>],
                d_count |-> [a \in StackAllocators |-> 0],
                failed |-> FALSE, ub |-> FALSE]
    /\ stlast = [op |-> "init", arg |-> 0, exc |-> "none", log |-> <<>>, n |-> 0,
                 pre |-> [stack |-> stack, owner |-> sheap.owner, mem |-> sheap.mem]]

----------------------------------------------------------------------------
(* ball::Attribute: a name (not owned), a value held in a variant, and the *)
(* cache of the last hash value computed for the attribute.                *)

\* The attribute objects of the client.
AttrSlots == {"mX", "mY"}

\* The (literal) names a client passes.
LiteralNames == {"a", "b"}

\* The alternatives of Attribute::Value.
ValueAlternatives ==
    {"int", "long", "long long", "unsigned int", "unsigned long",
     "unsigned long long", "bsl::string", "const void *", "bdlb::Guid"}

\* The parameter types of the value constructors and of setValue.
ValueOverloads ==
    (ValueAlternatives \ {"bsl::string"}) \cup
        {"const bsl::string_view&", "const char *", "const Value&"}

\* Attribute::Value: the alternative held and its content.  The allocator of
\* the variant is not followed: no operation on the name, the value or the
\* cache reads it.
AttrValue(type, v) == [type |-> type, v |-> v]

\* The values of the alternative an overload stores: a `const Value&` may
\* hold any alternative, both string overloads create a bsl::string.
ArgumentsOf(overload) ==
    CASE overload = "const Value&" -> {[type |-> t, v |-> 1] : t \in ValueAlternatives}
      [] overload \in {"const bsl::string_view&", "const char *"} ->
             {[type |-> "bsl::string", v |-> 1]}
      [] overload = "int" -> {[type |-> "int", v |-> 1], [type |-> "int", v |-> 2]}
      [] OTHER -> {[type |-> overload, v |-> 1]}

NoAttribute ==
    [alive |-> FALSE, d_name |-> "", d_value |-> AttrValue("none", 0),
     d_hashValue |-> -1, d_hashSize |-> 0]

\* The slot counts passed to hash.
HashSizes == {2, 3}

\* The hash of a name and a value for `size` slots: a number in
\* 0 .. size - 1 that depends on the name, the alternative and its content.
HashCode(name, value, size) ==
    LET n == CASE name = "a" -> 1 [] name = "b" -> 2 [] OTHER -> 0
        t == CASE value.type = "int" -> 0
               [] value.type = "long" -> 1
               [] value.type = "long long" -> 2
               [] value.type = "unsigned int" -> 3
               [] value.type = "unsigned long" -> 4
               [] value.type = "unsigned long long" -> 5
               [] value.type = "bsl::string" -> 6
               [] value.type = "const void *" -> 7
               [] OTHER -> 8
    IN (7 * n + 5 * t + value.v) % size

\* Attribute(const char *name, <overload> value, const allocator_type&)
AttributeValueCtor(w, x, name, arg) ==
    [w EXCEPT !.attribs[x] = [alive |-> TRUE, d_name |-> name,
                            d_value |-> AttrValue(arg.type, arg.v),
                            d_hashValue |-> -1, d_hashSize |-> 0]]

\* Attribute(const Attribute& original, const allocator_type&)
AttributeCopyCtor(w, x, original) ==
    [w EXCEPT !.attribs[x] =
        [alive |-> TRUE, d_name |-> w.attribs[original].d_name,
         d_value |-> w.attribs[original].d_value,
         d_hashValue |-> w.attribs[original].d_hashValue,
         d_hashSize |-> w.attribs[original].d_hashSize]]

\* Attribute& Attribute::operator=(const Attribute& rhs)
AttributeAssign(w, x, rhs) ==
    [w EXCEPT !.attribs[x].d_name = w.attribs[rhs].d_name,
              !.attribs[x].d_value = w.attribs[rhs].d_value,
              !.attribs[x].d_hashValue = w.attribs[rhs].d_hashValue,
              !.attribs[x].d_hashSize = w.attribs[rhs].d_hashSize]

\* Mutant of AttributeSetName: the cached hash value is left as it is.
AttributeSetName_KeepsCache(w, x, name) ==
    [w EXCEPT !.attribs[x].d_name = name]

\* void Attribute::setName(const char *name)
AttributeSetName(w, x, name) ==
    [w EXCEPT !.attribs[x].d_name = name, !.attribs[x].d_hashValue = -1]

\* void Attribute::setValue(<overload> value)
AttributeSetValue(w, x, arg) ==
    [w EXCEPT !.attribs[x].d_value = AttrValue(arg.type, arg.v),
              !.attribs[x].d_hashValue = -1]

\* static int Attribute::hash(const Attribute& attribute, int size): the
\* value is computed unless the cache holds one computed for `size` slots.
AttributeHash(w, x, size) ==
    LET at == w.attribs[x]
        w1 == IF at.d_hashValue < 0 \/ at.d_hashSize # size
              THEN [w EXCEPT !.attribs[x].d_hashValue =
                                 HashCode(at.d_name, at.d_value, size),
                             !.attribs[x].d_hashSize = size]
              ELSE w
    IN [w1 EXCEPT !.ret = w1.attribs[x].d_hashValue]

\* ~Attribute()
AttributeDtor(w, x) == [w EXCEPT !.attribs[x] = NoAttribute]

\* No attribute exists.
AttrIdle ==
    /\ attribs = [x \in AttrSlots |-> NoAttribute]
    /\ atlast = [op |-> "init", x |-> "none", y |-> "none", size |-> 0, ret |-> -1]

----------------------------------------------------------------------------
(* balxml::TypesPrintUtil: formatting an object to a stream in the mode a  *)
(* formatting-mode word selects.  An object is described by its bdlat type *)
(* category, the type underneath (its own, its base, its value or element  *)
(* type), the run-time category of a dynamic type, and its content.        *)

\* bdlat_FormattingMode
e_DEFAULT == 0

e_DEC == 1

e_HEX == 2

e_BASE64 == 3

e_TEXT == 4

e_TYPE_MASK == 7

e_ATTRIBUTE == 131072

e_LIST == 1048576

\* formattingMode & bit, for a single-bit mask
HasBit(formattingMode, bit) == (formattingMode \div bit) % 2 = 1

\* formattingMode & e_TYPE_MASK
TypeOf(formattingMode) == formattingMode % (e_TYPE_MASK + 1)

\* The longest array printed.
MaxElems == 3

PrintValues == {0, 1}

Elem(v) == [null |-> FALSE, v |-> v]

NullElem == [null |-> TRUE, v |-> 0]

Obj(cat, base, dyn, elems) == [cat |-> cat, base |-> base, dyn |-> dyn, elems |-> elems]

SeqsUpTo(S, n) == UNION {[1 .. k -> S] : k \in 0 .. n}

\* What is written to a stream: the representation a formatter produces for
\* a value of a type, or the delimiter of a list.
Repr(fmt, base, vs) == [fmt |-> fmt, base |-> base, vs |-> vs]

Delimiter == Repr(" ", "", <<>>)

ValuesOf(o) == [i \in 1 .. Len(o.elems) |-> o.elems[i].v]

\* stream << token: nothing is written to a stream whose failbit is set (or
\* by a program the assertion handler has ended).
Write(w, tok) ==
    IF w.aborted \/ w.stream.failbit THEN w
    ELSE [w EXCEPT !.stream.out = Append(@, tok)]

\* BSLS_ASSERT_SAFE(0 == "Unsupported operation!");
\* stream.setstate(bsl::ios_base::failbit);
\* In a safe build the assertion fails and its handler ends the program.
Unsupported(w) ==
    IF w.aborted THEN w
    ELSE IF safeBuild THEN [w EXCEPT !.aborted = TRUE]
    ELSE [w EXCEPT !.stream.failbit = TRUE]

\* The Simple types each formatter has an overload for.
SimpleOverloads(fmt) ==
    CASE fmt = "printBase64" -> {"string"}
      [] fmt = "printDecimal" -> {"bool", "char", "int"}
      [] fmt = "printDefault" -> {"bool", "char", "int", "string"}
      [] fmt = "printHex" -> {"string"}
      [] fmt = "printText" -> {"bool", "char", "string"}
      [] OTHER -> {}

\* bdlat_CustomizedTypeFunctions::convertToBaseType(object)
ConvertToBaseType(o) == [o EXCEPT !.cat = "Simple"]

\* bdlat_TypeCategoryUtil::accessByCategory(object, cb): the object under its
\* run-time category
ByCategory(o) == [o EXCEPT !.cat = o.dyn, !.dyn = "none"]

\* The value of a non-null nullable object, under its category
ValueOfNullable(o) == [o EXCEPT !.cat = "Simple"]

\* The element of array o at (1-based) position i, under its category
ElementOf(o, i) ==
    CASE o.base = "Nullable<int>" -> Obj("NullableValue", "int", "none", <<o.elems[i]>>)
      [] o.base = "Sequence" -> Obj("Sequence", "Sequence", "none", <<o.elems[i]>>)
      [] OTHER -> Obj("Simple", o.base, "none", <<o.elems[i]>>)

RECURSIVE ImpPrintBase64(_, _)
RECURSIVE ImpPrintDecimal(_, _)
RECURSIVE ImpPrintDefault(_, _)
RECURSIVE ImpPrintHex(_, _)
RECURSIVE ImpPrintText(_, _)
RECURSIVE ImpPrintList(_, _)
RECURSIVE AccessElements(_, _, _)

\* TypesPrintUtil_Imp::printBase64, by category
ImpPrintBase64(w, o) ==
    CASE o.cat = "CustomizedType" -> ImpPrintBase64(w, ConvertToBaseType(o))
      [] o.cat = "DynamicType" -> ImpPrintBase64(w, ByCategory(o))
      [] o.cat = "Simple" /\ o.base \in SimpleOverloads("printBase64") ->
             Write(w, Repr("printBase64", o.base, ValuesOf(o)))
      [] o.cat = "Array" /\ o.base = "char" ->
             Write(w, Repr("printBase64", "vector<char>", ValuesOf(o)))
      [] OTHER -> Unsupported(w)

\* TypesPrintUtil_Imp::printDecimal, by category
ImpPrintDecimal(w, o) ==
    CASE o.cat = "DynamicType" -> ImpPrintDecimal(w, ByCategory(o))
      [] o.cat = "Enumeration" ->
             ImpPrintDecimal(w, [o EXCEPT !.cat = "Simple", !.base = "int"])
      [] o.cat = "CustomizedType" -> ImpPrintDecimal(w, ConvertToBaseType(o))
      [] o.cat = "Simple" /\ o.base \in SimpleOverloads("printDecimal") ->
             Write(w, Repr("printDecimal", o.base, ValuesOf(o)))
      [] OTHER -> Unsupported(w)

\* TypesPrintUtil_Imp::printDefault, by category
ImpPrintDefault(w, o) ==
    CASE o.cat = "DynamicType" -> ImpPrintDefault(w, ByCategory(o))
      [] o.cat = "Enumeration" ->
             ImpPrintText(w, [o EXCEPT !.cat = "Simple", !.base = "string"])
      [] o.cat = "CustomizedType" -> ImpPrintDefault(w, ConvertToBaseType(o))
      [] o.cat = "NullableValue" ->
             IF o.elems[1].null THEN w ELSE ImpPrintDefault(w, ValueOfNullable(o))
      [] o.cat = "Simple" /\ o.base \in SimpleOverloads("printDefault") ->
             Write(w, Repr("printDefault", o.base, ValuesOf(o)))
      [] o.cat = "Array" /\ o.base = "char" -> ImpPrintBase64(w, o)
      [] OTHER -> Unsupported(w)

\* TypesPrintUtil_Imp::printHex, by category
ImpPrintHex(w, o) ==
    CASE o.cat = "CustomizedType" -> ImpPrintHex(w, ConvertToBaseType(o))
      [] o.cat = "DynamicType" -> ImpPrintHex(w, ByCategory(o))
      [] o.cat = "Simple" /\ o.base \in SimpleOverloads("printHex") ->
             Write(w, Repr("printHex", o.base, ValuesOf(o)))
      [] o.cat = "Array" /\ o.base = "char" ->
             Write(w, Repr("printHex", "vector<char>", ValuesOf(o)))
      [] OTHER -> Unsupported(w)

\* TypesPrintUtil_Imp::printText, by category
ImpPrintText(w, o) ==
    CASE o.cat = "DynamicType" -> ImpPrintText(w, ByCategory(o))
      [] o.cat = "Enumeration" ->
             ImpPrintText(w, [o EXCEPT !.cat = "Simple", !.base = "string"])
      [] o.cat = "CustomizedType" -> ImpPrintText(w, ConvertToBaseType(o))
      [] o.cat = "Simple" /\ o.base \in SimpleOverloads("printText") ->
             Write(w, Repr("printText", o.base, ValuesOf(o)))
      [] o.cat = "Array" /\ o.base = "char" ->
             Write(w, Repr("printText", "vector<char>", ValuesOf(o)))
      [] OTHER -> Unsupported(w)

\* Mutant of PrintListElementDefault: a null element also counts as written,
\* so the element after it is preceded by a delimiter.
PrintListElementDefault_NullCounts(f, e) ==
    IF e.cat = "NullableValue" /\ e.elems[1].null
    THEN [f EXCEPT !.d_doesNextElemNeedDelimiter = TRUE]
    ELSE LET w1 == IF f.d_doesNextElemNeedDelimiter THEN Write(f.w, Delimiter)
                   ELSE f.w
         IN [w |-> ImpPrintDefault(w1, IF e.cat = "NullableValue"
                                       THEN ValueOfNullable(e) ELSE e),
             d_doesNextElemNeedDelimiter |-> TRUE]

\* TypesPrintUtilImp_PrintListElementDefault::operator(): f is the functor,
\* with the stream it writes to; e is the element under its category.
PrintListElementDefault(f, e) ==
    IF e.cat = "NullableValue" /\ e.elems[1].null
    THEN f
    ELSE LET w1 == IF f.d_doesNextElemNeedDelimiter THEN Write(f.w, Delimiter)
                   ELSE f.w
         IN [w |-> ImpPrintDefault(w1, IF e.cat = "NullableValue"
                                       THEN ValueOfNullable(e) ELSE e),
             d_doesNextElemNeedDelimiter |-> TRUE]

\* The calls of bdlat::ArrayUtil::accessElementByCategory(object,
\* printElement, idx) for idx, idx + 1, ... up to the size of the array.
AccessElements(f, o, idx) ==
    IF idx > Len(o.elems) THEN f
    ELSE AccessElements(PrintListElementDefault(f, ElementOf(o, idx)), o, idx + 1)

\* TypesPrintUtil_Imp::printList, by category
ImpPrintList(w, o) ==
    CASE o.cat = "DynamicType" -> ImpPrintList(w, ByCategory(o))
      [] o.cat = "Array" ->
             IF Len(o.elems) = 0 THEN w
             ELSE AccessElements([w |-> w, d_doesNextElemNeedDelimiter |-> FALSE],
                                 o, 1).w
      [] OTHER -> Unsupported(w)

\* print() calls formatter fmt.
Delegate(w, fmt) == [w EXCEPT !.delegated = Append(@, fmt)]

\* Mutant of TypesPrintUtilPrint: the formatter is chosen by the type bits first, and the
\* list bit is looked at only when they name no formatter.
TypesPrintUtilPrint_TypeBitsFirst(w, o, formattingMode) ==
    LET type == TypeOf(formattingMode) IN
    CASE type = e_BASE64 -> ImpPrintBase64(Delegate(w, "printBase64"), o)
      [] type = e_DEC -> ImpPrintDecimal(Delegate(w, "printDecimal"), o)
      [] type = e_HEX -> ImpPrintHex(Delegate(w, "printHex"), o)
      [] type = e_TEXT -> ImpPrintText(Delegate(w, "printText"), o)
      [] OTHER -> IF HasBit(formattingMode, e_LIST)
                  THEN ImpPrintList(Delegate(w, "printList"), o)
                  ELSE IF type = e_DEFAULT
                  THEN ImpPrintDefault(Delegate(w, "printDefault"), o)
                  ELSE Unsupported(w)

\* TypesPrintUtil::print(stream, object, formattingMode)
TypesPrintUtilPrint(w, o, formattingMode) ==
    IF HasBit(formattingMode, e_LIST)
    THEN ImpPrintList(Delegate(w, "printList"), o)
    ELSE LET type == TypeOf(formattingMode) IN
         CASE type = e_BASE64 -> ImpPrintBase64(Delegate(w, "printBase64"), o)
           [] type = e_DEC -> ImpPrintDecimal(Delegate(w, "printDecimal"), o)
           [] type = e_DEFAULT -> ImpPrintDefault(Delegate(w, "printDefault"), o)
           [] type = e_HEX -> ImpPrintHex(Delegate(w, "printHex"), o)
           [] type = e_TEXT -> ImpPrintText(Delegate(w, "printText"), o)
           [] OTHER -> Unsupported(w)

\* TypesPrintUtil::printList(stream, object)
PrintList(w, o) == ImpPrintList(w, o)

\* An empty stream in the good state.
EmptyStream == [out |-> <<>>, failbit |-> FALSE]

\* Nothing is being printed.
PrintIdle ==
    /\ safeBuild = FALSE
    /\ prt = [op |-> "idle", object |-> Obj("Sequence", "Sequence", "none", <<>>),
              formattingMode |-> e_DEFAULT, stream |-> EmptyStream,
              delegated |-> <<>>, aborted |-> FALSE]

----------------------------------------------------------------------------
(* The program: the operations a client of the allocators performs *)

\* What global operator new may return: any free block, or 0 (std::bad_alloc)
\* when none is free.
FreeChoice(used) == IF Blocks \ used = {} THEN {0} ELSE Blocks \ used

\* What a read of a word that is no block header may yield.
JunkWords == {"MAGIC", "JUNK"}

\* Values an uninitialized int member may hold.
Indeterminate == {0, 2}

\* The classes the test driver creates by `allocate` followed by `new (p) T`.
TwoStepClasses == {"my_Class1", "my_Class2", "my_Class3", "my_MostDerived"}

AllocSizes == {0} \cup {SizeOf(c) : c \in TwoStepClasses}

\* The types `new (a) T` is used with, per allocator.
NewTypes(a) ==
    IF a = "mya"
    THEN ScalarTypes \cup {"my_ClassThatMayThrowFromConstructor"}
    ELSE {"my_Type", "my_ClassThatMayThrowFromConstructor"}

Calls == nda.d_count + mya.d_allocateCount + mya.d_deallocateCount

LiveObjects == {b \in Addrs : objs[b].cls # "none"}

\* Footprints the client holds that contain no object.
RawHeld ==
    {BlockAddr(k) : k \in {j \in inUse :
        /\ objs[BlockAddr(j)].cls = "none"
        /\ \A b \in Addrs : objs[b].stuff # BlockAddr(j)}}

Pre ==
    [nda |-> nda, mya |-> mya, hdr |-> hdr, inUse |-> inUse, bsize |-> bsize,
     objs |-> objs, ctr |-> ctr, testStatus |-> testStatus]

Commit(s, op, p, st, c) ==
    /\ nda' = s.nda
    /\ mya' = s.mya
    /\ hdr' = s.hdr
    /\ inUse' = s.inUse
    /\ bsize' = s.bsize
    /\ objs' = s.objs
    /\ ctr' = s.ctr
    /\ testStatus' = s.testStatus
    /\ ub' = s.ub
    /\ log' = s.log
    /\ last' = [op |-> op, a |-> myA, p |-> p, st |-> st, cls |-> c,
                ret |-> s.ret, exc |-> s.exc, pre |-> Pre]
    /\ UNCHANGED <<excBuild, myA, aaVars, recVars, arrVars, seqVars, stkVars, attVars, prtVars>>

\* No allocator-aware object has been created yet.
AAInit ==
    /\ tallocs = [a \in TestAllocators |->
                     [numBlocksInUse |-> 0, numBlocksTotal |-> 0]]
    /\ aaobjs = [x \in TestObjects |-> NoAAObj]
    /\ aalast = [op |-> "init", x |-> "none", y |-> "none", cfg |-> "none",
                 n |-> 0, ret |-> "none",
                 pre |-> [tallocs |-> tallocs, aaobjs |-> aaobjs],
                 swapped |-> NoSwap]

\* No record exists yet and da is the installed default allocator.
RecInit ==
    /\ recs = [r \in RecSlots |-> NoRecord]
    /\ rdefault = "da"
    /\ rlast = [op |-> "init", x |-> "none", y |-> "none", arg |-> "none",
                n |-> 0, ret |-> "none", log |-> <<>>,
                pre |-> [recs |-> recs, rdefault |-> rdefault]]

Init ==
    /\ myA \in Allocators
    /\ nda = [d_count |-> 0]
    /\ mya \in {[d_fun |-> v, d_arg |-> v,
                  d_allocateCount |-> 0, d_deallocateCount |-> 0] :
                 v \in IF myA = "mya" THEN Indeterminate ELSE {0}}
    /\ hdr = [k \in Blocks |-> "JUNK"]
    /\ inUse = {}
    /\ bsize = [k \in Blocks |-> 0]
    /\ objs = [b \in Addrs |-> NoObj]
    /\ ctr = [globalObjectStatus |-> 0, class3ObjectCount |-> 0,
              virtualBaseObjectCount |-> 0, leftBaseObjectCount |-> 0,
              rightBaseObjectCount |-> 0, mostDerivedObjectCount |-> 0]
    /\ testStatus = 0
    /\ ub = FALSE
    /\ excBuild \in BOOLEAN
    /\ log = <<>>
    /\ last = [op |-> "init", a |-> myA, p |-> 0, st |-> "none", cls |-> "none",
               ret |-> 0, exc |-> "none", pre |-> Pre]
    /\ AAInit
    /\ RecInit
    /\ ArrIdle
    /\ SeqIdle
    /\ StackIdle
    /\ AttrIdle
    /\ PrintIdle

\* What the read of the word in front of address p may yield when p is not
\* the start of a block (only then is the word no header).
JunkChoice(p) == IF p \in HeapAddrs \cup {0, MyAAddr} THEN {"JUNK"} ELSE JunkWords

\* p = a.allocate(n)
AllocateStep(n) ==
    /\ ~ub /\ Calls < MaxCalls
    /\ \E k \in FreeChoice(inUse) :
           Commit(Allocate(myA, State, n, k), "allocate", n, "none", "none")

\* new (p) T, for a footprint p of sizeof(T) bytes the client holds
ConstructStep(b, c) ==
    /\ ~ub
    /\ b \in RawHeld
    /\ bsize[BlockOf(b)] = SizeOf(c)
    /\ Commit(Construct(c, State, b, myA, 0), "construct", b, c, c)

\* a.deallocate(p), for a null pointer or a footprint the client holds
DeallocateStep(p) ==
    /\ ~ub /\ Calls < MaxCalls
    /\ p = 0 \/ (myA = "nda" /\ p \in RawHeld)
             \/ (myA = "mya" /\ p = MyAAddr /\ objs[MyAAddr].cls = "none")
    /\ \E junk \in JunkChoice(p) :
           Commit(Deallocate(myA, State, p, junk), "deallocate", p, "none", "none")

\* a.deallocate(a.allocate(n))
AllocDeallocStep(n) ==
    /\ ~ub /\ Calls < MaxCalls
    /\ \E k \in FreeChoice(inUse) :
           LET s1 == Allocate(myA, State, n, k) IN
           Commit(IF s1.exc # "none" THEN s1 ELSE Deallocate(myA, s1, s1.ret, "JUNK"),
                  "pair", n, "none", "none")

\* a.deleteObject(p), p a pointer of static type st to the live object at b
DeleteObjectStep(b, st) ==
    /\ ~ub
    /\ b \in LiveObjects
    /\ st \in StaticTypes(objs[b].cls)
    /\ LET p == b + Offset(st, objs[b].cls) IN
       \E junk \in JunkChoice(p) :
           Commit(DeleteObject(myA, State, p, st, junk), "deleteObject", p, st,
                  objs[b].cls)

\* a.deleteObjectRaw(p), p a pointer of static type st to the live object at b
DeleteObjectRawStep(b, st) ==
    /\ ~ub
    /\ b \in LiveObjects
    /\ st \in StaticTypes(objs[b].cls)
    /\ LET p == b + Offset(st, objs[b].cls) IN
       \E junk \in JunkChoice(p) :
           Commit(DeleteObjectRaw(myA, State, p, st, junk), "deleteObjectRaw", p, st,
                  objs[b].cls)

\* a.deleteObject(p) with a null pointer of type st, or a.deleteObject(0) /
\* a.deleteObject(nullptr) when st is "nullptr_t"
DeleteObjectNullStep(st) ==
    /\ ~ub
    /\ Commit(IF st = "nullptr_t" THEN DeleteObjectNullptr(myA, State)
              ELSE DeleteObject(myA, State, 0, st, "JUNK"),
              "deleteObject", 0, st, "none")

\* a.deleteObjectRaw(p) with a null pointer, typed or literal
DeleteObjectRawNullStep(st) ==
    /\ ~ub
    /\ Commit(IF st = "nullptr_t" THEN DeleteObjectRawNullptr(myA, State)
              ELSE DeleteObjectRaw(myA, State, 0, st, "JUNK"),
              "deleteObjectRaw", 0, st, "none")

\* p = new (a) T
NewStep(t) ==
    /\ ~ub /\ Calls < MaxCalls
    /\ t \in NewTypes(myA)
    /\ t \in ScalarTypes \/ myA = "nda" \/ objs[MyAAddr].cls = "none"
    /\ \E k \in FreeChoice(inUse) :
         \E k2 \in FreeChoice(inUse \cup {k}) :
           Commit(NewExpr(myA, State, t, k, k2, "JUNK"), "new", 0, t, t)

\* p->~T(); a.deallocate(p);
DestroyDeallocateStep(b) ==
    /\ ~ub
    /\ b \in LiveObjects
    /\ objs[b].cls \in {"my_Type", "my_ClassThatMayThrowFromConstructor"}
    /\ Commit(Deallocate(myA, Destroy(State, b, objs[b].cls, "JUNK"), b, "JUNK"),
              "destroyDeallocate", b, objs[b].cls, objs[b].cls)

----------------------------------------------------------------------------
(* The program of the protocol test: an allocator used through its own     *)
(* interface and through the bsl::memory_resource interface.               *)

ResourceAllocators == {"nda", "mya", "ipt", "apt"}

\* The sizes and alignments passed through the memory_resource interface.
ResourceSizes == {0, 2}

Alignments == {1, 16}

\* The pointer a.allocate / r.allocate returns for a non-zero size when it is
\* not a heap block.
StaticResult(a) ==
    CASE a = "mya" -> MyAAddr
      [] a = "ipt" -> IptBuf
      [] a = "apt" -> AptDoBuf
      [] OTHER -> 0

InitMR ==
    /\ myA \in ResourceAllocators
    /\ nda = [d_count |-> 0]
    /\ mya \in {[d_fun |-> v, d_arg |-> v,
                  d_allocateCount |-> 0, d_deallocateCount |-> 0] :
                 v \in IF myA = "mya" THEN Indeterminate ELSE {0}}
    /\ hdr = [k \in Blocks |-> "JUNK"]
    /\ inUse = {}
    /\ bsize = [k \in Blocks |-> 0]
    /\ objs = [b \in Addrs |-> NoObj]
    /\ ctr = [globalObjectStatus |-> 0, class3ObjectCount |-> 0,
              virtualBaseObjectCount |-> 0, leftBaseObjectCount |-> 0,
              rightBaseObjectCount |-> 0, mostDerivedObjectCount |-> 0]
    /\ testStatus = 0
    /\ ub = FALSE
    /\ excBuild \in BOOLEAN
    /\ log = <<>>
    /\ last = [op |-> "init", a |-> myA, p |-> 0, st |-> "none", cls |-> "none",
               ret |-> 0, exc |-> "none", pre |-> Pre]
    /\ AAInit
    /\ RecInit
    /\ ArrIdle
    /\ SeqIdle
    /\ StackIdle
    /\ AttrIdle
    /\ PrintIdle

\* p = r.allocate(bytes, alignment), r the allocator as a bsl::memory_resource;
\* zero bytes are requested of the allocators whose allocate(0) returns null.
ResourceAllocateStep(bytes, alignment) ==
    /\ ~ub /\ Calls < MaxCalls
    /\ bytes = 0 => myA \in {"nda", "mya"}
    /\ \E k \in FreeChoice(inUse) :
           Commit(ResourceAllocate(myA, State, bytes, alignment, k),
                  "r_allocate", bytes, "none", "none")

\* r.deallocate(p, bytes, alignment), for a block of that size obtained from r
ResourceDeallocateStep(p, bytes, alignment) ==
    /\ ~ub /\ Calls < MaxCalls
    /\ \/ bytes = 0 /\ p = ZeroSizeBlock /\ myA \in {"nda", "mya"}
       \/ bytes # 0 /\ myA = "nda" /\ p \in RawHeld /\ bsize[BlockOf(p)] = bytes
       \/ bytes # 0 /\ myA # "nda" /\ p = StaticResult(myA)
    /\ Commit(ResourceDeallocate(myA, State, p, bytes, alignment, "JUNK"),
              "r_deallocate", p, "none", "none")

NextMR ==
    \/ \E n \in ResourceSizes : AllocateStep(n)
    \/ \E p \in HeapAddrs \cup {0} : DeallocateStep(p)
    \/ \E n \in ResourceSizes, al \in Alignments : ResourceAllocateStep(n, al)
    \/ \E p \in HeapAddrs \cup {MyAAddr, IptBuf, AptDoBuf, ZeroSizeBlock},
          n \in ResourceSizes, al \in Alignments : ResourceDeallocateStep(p, n, al)

SpecMR == InitMR /\ [][NextMR]_vars

NullTypes == {"my_Class3", "nullptr_t"}

PointerTypes == DiamondClasses \cup ObjectClasses \cup {"my_Class3Base"}

Next ==
    \/ \E n \in AllocSizes : AllocateStep(n)
    \/ \E b \in HeapAddrs, c \in TwoStepClasses : ConstructStep(b, c)
    \/ \E p \in Addrs \cup {0} : DeallocateStep(p)
    \/ \E n \in AllocSizes : AllocDeallocStep(n)
    \/ \E b \in Addrs, st \in PointerTypes : DeleteObjectStep(b, st)
    \/ \E b \in Addrs, st \in PointerTypes : DeleteObjectRawStep(b, st)
    \/ \E st \in NullTypes : DeleteObjectNullStep(st)
    \/ \E st \in NullTypes : DeleteObjectRawNullStep(st)
    \/ \E t \in ScalarTypes \cup ObjectClasses : NewStep(t)
    \/ \E b \in Addrs : DestroyDeallocateStep(b)

Spec == Init /\ [][Next]_vars

----------------------------------------------------------------------------
(* The program of the value-type test driver: objects are created in the   *)
(* footprint allocator with every allocator configuration, assigned,       *)
(* swapped, modified and deleted.                                          *)

\* The objects that currently exist.
LiveAA == {x \in TestObjects : aaobjs[x] # NoAAObj}

World == [tallocs |-> tallocs, aaobjs |-> aaobjs, ret |-> "none"]

\* The control copies XX and YY: the objects as they were before the previous
\* operation, kept when that operation and this one are both swaps.
ControlCopies(op) ==
    IF op \in SwapOps /\ aalast.op \in SwapOps
    THEN [x |-> aalast.x, y |-> aalast.y, aaobjs |-> aalast.pre.aaobjs]
    ELSE NoSwap

AACommit(w, op, x, y, cfg) ==
    /\ tallocs' = w.tallocs
    /\ aaobjs' = w.aaobjs
    /\ aalast' = [op |-> op, x |-> x, y |-> y, cfg |-> cfg,
                  n |-> aalast.n + 1, ret |-> w.ret,
                  pre |-> [tallocs |-> tallocs, aaobjs |-> aaobjs],
                  swapped |-> ControlCopies(op)]
    /\ UNCHANGED <<clientVars, recVars, arrVars, seqVars, stkVars, attVars, prtVars>>

InitAA ==
    /\ myA = "nda"
    /\ nda = [d_count |-> 0]
    /\ mya = [d_fun |-> 0, d_arg |-> 0,
              d_allocateCount |-> 0, d_deallocateCount |-> 0]
    /\ hdr = [k \in Blocks |-> "JUNK"]
    /\ inUse = {}
    /\ bsize = [k \in Blocks |-> 0]
    /\ objs = [b \in Addrs |-> NoObj]
    /\ ctr = [globalObjectStatus |-> 0, class3ObjectCount |-> 0,
              virtualBaseObjectCount |-> 0, leftBaseObjectCount |-> 0,
              rightBaseObjectCount |-> 0, mostDerivedObjectCount |-> 0]
    /\ testStatus = 0
    /\ ub = FALSE
    /\ excBuild = TRUE
    /\ log = <<>>
    /\ last = [op |-> "init", a |-> myA, p |-> 0, st |-> "none", cls |-> "none",
               ret |-> 0, exc |-> "none", pre |-> Pre]
    /\ AAInit
    /\ RecInit
    /\ ArrIdle
    /\ SeqIdle
    /\ StackIdle
    /\ AttrIdle
    /\ PrintIdle

\* objPtr = new (fa) Obj(OFFSET, FLAG, DESC, allocator)
ValueCtorStep(x, v, cfg) ==
    /\ aalast.n < MaxOps
    /\ x \notin LiveAA
    /\ AACommit(ValueCtor(TaAllocate(World, FootprintAllocator), x, v,
                          AllocatorType(cfg)),
                "ctor", x, "none", cfg)

\* objPtr = new (fa) Obj(Z), Obj(Z, allocator)
CopyCtorStep(x, y, cfg) ==
    /\ aalast.n < MaxOps
    /\ x \notin LiveAA /\ y \in LiveAA
    /\ AACommit(CopyCtor(TaAllocate(World, FootprintAllocator), x, y, cfg),
                "copy_ctor", x, y, cfg)

\* objPtr = new (fa) Obj(MoveUtil::move(mF)), Obj(MoveUtil::move(mF), allocator)
MoveCtorStep(x, y, cfg) ==
    /\ aalast.n < MaxOps
    /\ x \notin LiveAA /\ y \in LiveAA
    /\ AACommit(MoveCtor(TaAllocate(World, FootprintAllocator), x, y, cfg),
                "move_ctor", x, y, cfg)

\* Obj *mR = &(mX = Z)
CopyAssignStep(x, y) ==
    /\ aalast.n < MaxOps
    /\ x \in LiveAA /\ y \in LiveAA
    /\ AACommit(CopyAssign(World, x, y), "copy_assign", x, y, "none")

\* Obj *mR = &(mX = MoveUtil::move(mF))
MoveAssignStep(x, y) ==
    /\ aalast.n < MaxOps
    /\ x \in LiveAA /\ y \in LiveAA
    /\ AACommit(MoveAssign(World, x, y), "move_assign", x, y, "none")

\* mX.swap(mW), for objects of one allocator
MemberSwapStep(x, y) ==
    /\ aalast.n < MaxOps
    /\ x \in LiveAA /\ y \in LiveAA
    /\ aaobjs[x].alloc = aaobjs[y].alloc
    /\ AACommit(MemberSwap(World, x, y), "swap", x, y, "none")

\* swap(mX, mW)
FreeSwapStep(x, y) ==
    /\ aalast.n < MaxOps
    /\ x \in LiveAA /\ y \in LiveAA
    /\ AACommit(FreeSwap(World, x, y), "free_swap", x, y, "none")

\* mX.setDescription(desc)
SetDescriptionStep(x, desc) ==
    /\ aalast.n < MaxOps
    /\ x \in LiveAA
    /\ AACommit(SetDescription(World, x, desc), "setDescription", x, "none", "none")

\* mX.setUtcOffsetInSeconds(n)
SetUtcOffsetInSecondsStep(x, n) ==
    /\ aalast.n < MaxOps
    /\ x \in LiveAA
    /\ AACommit(SetUtcOffsetInSeconds(World, x, n),
                "setUtcOffsetInSeconds", x, "none", "none")

\* fa.deleteObject(objPtr)
FaDeleteObjectStep(x) ==
    /\ aalast.n < MaxOps
    /\ x \in LiveAA
    /\ AACommit(TaDeallocate(Dtor(World, x), FootprintAllocator),
                "deleteObject", x, "none", "none")

NextAA ==
    \/ \E x \in TestObjects, v \in AAValues, cfg \in AllocatorConfigs :
           ValueCtorStep(x, v, cfg)
    \/ \E x, y \in TestObjects, cfg \in AllocatorConfigs : CopyCtorStep(x, y, cfg)
    \/ \E x, y \in TestObjects, cfg \in AllocatorConfigs : MoveCtorStep(x, y, cfg)
    \/ \E x, y \in TestObjects : CopyAssignStep(x, y)
    \/ \E x, y \in TestObjects : MoveAssignStep(x, y)
    \/ \E x, y \in TestObjects : MemberSwapStep(x, y)
    \/ \E x, y \in TestObjects : FreeSwapStep(x, y)
    \/ \E x \in TestObjects, desc \in Descriptions : SetDescriptionStep(x, desc)
    \/ \E x \in TestObjects, n \in UtcOffsets : SetUtcOffsetInSecondsStep(x, n)
    \/ \E x \in TestObjects : FaDeleteObjectStep(x)

SpecAA == InitAA /\ [][NextAA]_vars

----------------------------------------------------------------------------
(* The program of a client of ball::Record: records are created in         *)
(* footprints of the allocator they are built with, modified, compared     *)
(* and deleted, and the default allocator is replaced.                     *)

\* The records that currently exist.
LiveRecs == {r \in RecSlots : recs[r] # NoRecord}

RWorld == [recs |-> recs, rdefault |-> rdefault, log |-> <<>>, ret |-> "none"]

RCommit(w, op, x, y, arg) ==
    /\ recs' = w.recs
    /\ rdefault' = w.rdefault
    /\ rlast' = [op |-> op, x |-> x, y |-> y, arg |-> arg,
                 n |-> rlast.n + 1, ret |-> w.ret, log |-> w.log,
                 pre |-> [recs |-> recs, rdefault |-> rdefault]]
    /\ UNCHANGED <<clientVars, aaVars, arrVars, seqVars, stkVars, attVars, prtVars>>

InitRec ==
    /\ myA = "nda"
    /\ nda = [d_count |-> 0]
    /\ mya = [d_fun |-> 0, d_arg |-> 0,
              d_allocateCount |-> 0, d_deallocateCount |-> 0]
    /\ hdr = [k \in Blocks |-> "JUNK"]
    /\ inUse = {}
    /\ bsize = [k \in Blocks |-> 0]
    /\ objs = [b \in Addrs |-> NoObj]
    /\ ctr = [globalObjectStatus |-> 0, class3ObjectCount |-> 0,
              virtualBaseObjectCount |-> 0, leftBaseObjectCount |-> 0,
              rightBaseObjectCount |-> 0, mostDerivedObjectCount |-> 0]
    /\ testStatus = 0
    /\ ub = FALSE
    /\ excBuild = TRUE
    /\ log = <<>>
    /\ last = [op |-> "init", a |-> myA, p |-> 0, st |-> "none", cls |-> "none",
               ret |-> 0, exc |-> "none", pre |-> Pre]
    /\ AAInit
    /\ RecInit
    /\ ArrIdle
    /\ SeqIdle
    /\ StackIdle
    /\ AttrIdle
    /\ PrintIdle

\* The footprint of a new record comes from the allocator the record holds.
NewRecord(w, r) ==
    [w EXCEPT !.log = <<[ev |-> "allocate", who |-> w.recs[r].d_allocator_p,
                         arg |-> FootprintOf(r), by |-> "new"]>> \o @]

\* bslma::Default::setDefaultAllocatorRaw(a)
SetDefaultAllocatorStep(a) ==
    /\ rlast.n < MaxOps
    /\ a # rdefault
    /\ RCommit([RWorld EXCEPT !.rdefault = a], "setDefault", "none", "none", a)

\* r = new (*allocator) Record(basicAllocator)
RecordCtorStep(r, basicAllocator) ==
    /\ rlast.n < MaxOps
    /\ r \notin LiveRecs
    /\ RCommit(NewRecord(RecordCtor(RWorld, r, basicAllocator), r),
               "ctor", r, "none", basicAllocator)

\* r = new (*allocator) Record(fixedFields, userFields, basicAllocator)
RecordValueCtorStep(r, fixedFields, userFields, basicAllocator) ==
    /\ rlast.n < MaxOps
    /\ r \notin LiveRecs
    /\ RCommit(NewRecord(RecordValueCtor(RWorld, r, fixedFields, userFields,
                                         basicAllocator), r),
               "value_ctor", r, "none", basicAllocator)

\* r = new (*allocator) Record(original, basicAllocator)
RecordCopyCtorStep(r, original, basicAllocator) ==
    /\ rlast.n < MaxOps
    /\ r \notin LiveRecs /\ original \in LiveRecs
    /\ RCommit(NewRecord(RecordCopyCtor(RWorld, r, original, basicAllocator), r),
               "copy_ctor", r, original, basicAllocator)

\* lhs = rhs
RecordAssignStep(r, rhs) ==
    /\ rlast.n < MaxOps
    /\ r \in LiveRecs /\ rhs \in LiveRecs
    /\ RCommit(RecordAssign(RWorld, r, rhs), "assign", r, rhs, "none")

\* r.addAttribute(attribute)
RecordAddAttributeStep(r, attribute) ==
    /\ rlast.n < MaxOps
    /\ r \in LiveRecs
    /\ Len(recs[r].d_attributes) < MaxAttributes
    /\ RCommit(RecordAddAttribute(RWorld, r, attribute),
               "addAttribute", r, "none", attribute)

\* r.clear()
RecordClearStep(r) ==
    /\ rlast.n < MaxOps
    /\ r \in LiveRecs
    /\ RCommit(RecordClear(RWorld, r), "clear", r, "none", "none")

\* r.setFixedFields(fixedFields)
RecordSetFixedFieldsStep(r, fixedFields) ==
    /\ rlast.n < MaxOps
    /\ r \in LiveRecs
    /\ RCommit(RecordSetFixedFields(RWorld, r, fixedFields),
               "setFixedFields", r, "none", fixedFields)

\* r.setCustomFields(userFields)
RecordSetCustomFieldsStep(r, userFields) ==
    /\ rlast.n < MaxOps
    /\ r \in LiveRecs
    /\ RCommit(RecordSetCustomFields(RWorld, r, userFields),
               "setCustomFields", r, "none", "none")

\* Record::deleteObject(r)
RecordDeleteObjectStep(r) ==
    /\ rlast.n < MaxOps
    /\ r \in LiveRecs
    /\ RCommit(RecordDeleteObject(RWorld, r), "deleteObject", r, "none", "none")

\* lhs == rhs
RecordEqStep(lhs, rhs) ==
    /\ rlast.n < MaxOps
    /\ lhs \in LiveRecs /\ rhs \in LiveRecs
    /\ RCommit(RecordEq(RWorld, lhs, rhs), "operator==", lhs, rhs, "none")

\* lhs != rhs
RecordNeStep(lhs, rhs) ==
    /\ rlast.n < MaxOps
    /\ lhs \in LiveRecs /\ rhs \in LiveRecs
    /\ RCommit(RecordNe(RWorld, lhs, rhs), "operator!=", lhs, rhs, "none")

NextRec ==
    \/ \E a \in DefaultAllocators : SetDefaultAllocatorStep(a)
    \/ \E r \in RecSlots, a \in RecAllocators \cup {"0"} : RecordCtorStep(r, a)
    \/ \E r \in RecSlots, f \in FixedFieldValues, u \in UserFieldValues,
          a \in RecAllocators \cup {"0"} : RecordValueCtorStep(r, f, u, a)
    \/ \E r, o \in RecSlots, a \in RecAllocators \cup {"0"} :
           RecordCopyCtorStep(r, o, a)
    \/ \E r, rhs \in RecSlots : RecordAssignStep(r, rhs)
    \/ \E r \in RecSlots, at \in AttributeNames : RecordAddAttributeStep(r, at)
    \/ \E r \in RecSlots : RecordClearStep(r)
    \/ \E r \in RecSlots, f \in FixedFieldValues : RecordSetFixedFieldsStep(r, f)
    \/ \E r \in RecSlots, u \in UserFieldValues : RecordSetCustomFieldsStep(r, u)
    \/ \E r \in RecSlots : RecordDeleteObjectStep(r)
    \/ \E lhs, rhs \in RecSlots : RecordEqStep(lhs, rhs)
    \/ \E lhs, rhs \in RecSlots : RecordNeStep(lhs, rhs)

SpecRec == InitRec /\ [][NextRec]_vars

----------------------------------------------------------------------------
(* The program of the array test driver, case 18: an array built from a    *)
(* spec string is accessed and modified through at().                      *)

\* The client state every other component starts from.
ClientIdle ==
    /\ myA = "nda"
    /\ nda = [d_count |-> 0]
    /\ mya = [d_fun |-> 0, d_arg |-> 0,
              d_allocateCount |-> 0, d_deallocateCount |-> 0]
    /\ hdr = [k \in Blocks |-> "JUNK"]
    /\ inUse = {}
    /\ bsize = [k \in Blocks |-> 0]
    /\ objs = [b \in Addrs |-> NoObj]
    /\ ctr = [globalObjectStatus |-> 0, class3ObjectCount |-> 0,
              virtualBaseObjectCount |-> 0, leftBaseObjectCount |-> 0,
              rightBaseObjectCount |-> 0, mostDerivedObjectCount |-> 0]
    /\ testStatus = 0
    /\ ub = FALSE
    /\ log = <<>>
    /\ last = [op |-> "init", a |-> myA, p |-> 0, st |-> "none", cls |-> "none",
               ret |-> 0, exc |-> "none", pre |-> Pre]

ArrState == [arr |-> arr, ret |-> -1, exc |-> "none"]

ArrCommit(s, op, pos, const) ==
    /\ arr' = s.arr
    /\ arlast' = [op |-> op, pos |-> pos, const |-> const, ret |-> s.ret,
                  exc |-> s.exc, pre |-> arr]
    /\ UNCHANGED <<clientVars, aaVars, recVars, seqVars, stkVars, attVars, prtVars>>

\* Obj mX; const Obj& X = gg(&mX, SPEC), for each SIZE
InitArr ==
    /\ ClientIdle
    /\ excBuild \in BOOLEAN
    /\ AAInit
    /\ RecInit
    /\ SeqIdle
    /\ StackIdle
    /\ AttrIdle
    /\ PrintIdle
    /\ arr \in {Ggg(SIZE, spec) : SIZE \in 0..MaxSize, spec \in ArrSpecs}
    /\ arlast = [op |-> "init", pos |-> 0, const |-> FALSE, ret |-> -1,
                 exc |-> "none", pre |-> arr]

\* mX.at(pos) and X.at(pos); positions past the end are passed only in
\* builds with exceptions enabled
ArrayAtStep(pos, const) ==
    /\ pos >= arr.SIZE => excBuild
    /\ ArrCommit(ArrayAt(ArrState, pos), "at", pos, const)

\* mX.at(pos) = value
ArrayAssignAtStep(pos, value) ==
    /\ pos < arr.SIZE
    /\ ArrCommit(ArrayAssignAt(ArrState, pos, value), "assign_at", pos, FALSE)

NextArr ==
    \/ \E pos \in 0..(MaxSize + 1), const \in BOOLEAN : ArrayAtStep(pos, const)
    \/ \E pos \in 0..MaxSize, v \in ElementValues : ArrayAssignAtStep(pos, v)

SpecArr == InitArr /\ [][NextArr]_vars

----------------------------------------------------------------------------
(* The program of a client of MySequenceWithDoubleAttribute: functors are  *)
(* applied to the attribute selected by id or by name.                     *)

\* The ids and names a client passes.
AttributeIds == {-1, ATTRIBUTE_ID_ATTRIBUTE1, NUM_ATTRIBUTES}

ClientNames == {Attribute1Name, Attribute1Name \o <<"x">>,
                <<"a", "t", "t", "r", "i", "b", "u", "t", "e", "2">>}

\* The name lengths a client passes: the attribute's, one less, one more, none.
NameLengths == {0, Len(Attribute1Name) - 1, Len(Attribute1Name),
                Len(Attribute1Name) + 1}

Functors == [effect : FunctorEffects, result : FunctorResults]

Accessors == {f \in Functors : ~f.effect.stores}

SeqState == [d_attribute1 |-> seq.d_attribute1, calls |-> <<>>, ret |-> 0]

SeqCommit(s, op, f, id, name, nameLength) ==
    /\ seq' = [d_attribute1 |-> s.d_attribute1]
    /\ slast' = [op |-> op, f |-> f, id |-> id, name |-> name,
                 nameLength |-> nameLength, ret |-> s.ret, calls |-> s.calls,
                 pre |-> seq]
    /\ UNCHANGED <<clientVars, aaVars, recVars, arrVars, stkVars, attVars, prtVars>>

InitSeq ==
    /\ ClientIdle
    /\ excBuild = TRUE
    /\ AAInit
    /\ RecInit
    /\ ArrIdle
    /\ SeqIdle
    /\ StackIdle
    /\ AttrIdle
    /\ PrintIdle

\* object.manipulateAttribute(manipulator, id)
ManipulateAttributeStep(f, id) ==
    /\ id \in AttributeIds
    /\ SeqCommit(ManipulateAttribute(SeqState, f, id), "manipulateAttribute",
                 f, id, <<>>, 0)

\* object.manipulateAttribute(manipulator, name, nameLength)
ManipulateAttributeByNameStep(f, name, nameLength) ==
    /\ nameLength <= Len(name)
    /\ SeqCommit(ManipulateAttributeByName(SeqState, f, name, nameLength),
                 "manipulateAttribute(name)", f, -1, name, nameLength)

\* object.accessAttribute(accessor, id)
AccessAttributeStep(f, id) ==
    /\ id \in AttributeIds
    /\ SeqCommit(AccessAttribute(SeqState, f, id), "accessAttribute",
                 f, id, <<>>, 0)

\* object.accessAttribute(accessor, name, nameLength)
AccessAttributeByNameStep(f, name, nameLength) ==
    /\ nameLength <= Len(name)
    /\ SeqCommit(AccessAttributeByName(SeqState, f, name, nameLength),
                 "accessAttribute(name)", f, -1, name, nameLength)

NextSeq ==
    \/ \E f \in Functors, id \in AttributeIds : ManipulateAttributeStep(f, id)
    \/ \E f \in Functors, name \in ClientNames, n \in NameLengths :
           ManipulateAttributeByNameStep(f, name, n)
    \/ \E f \in Accessors, id \in AttributeIds : AccessAttributeStep(f, id)
    \/ \E f \in Accessors, name \in ClientNames, n \in NameLengths :
           AccessAttributeByNameStep(f, name, n)

SpecSeq == InitSeq /\ [][NextSeq]_vars

----------------------------------------------------------------------------
(* The program of the usage example: a stack is created, pushed onto and   *)
(* destroyed.                                                              *)

\* The number of operations on the stack that are followed.
MaxStackOps == 6

StackState ==
    [stack |-> stack, owner |-> sheap.owner, mem |-> sheap.mem,
     d_count |-> sheap.d_count, failed |-> sheap.failed, ub |-> sheap.ub,
     log |-> <<>>, exc |-> "none", ret |-> 0]

\* What global operator new may do: hand out a free block, or throw
\* std::bad_alloc (0) because the rest of the program has exhausted the heap.
StackFreeChoice == {k \in Blocks : sheap.owner[k] = "free"} \cup {0}

StackCommit(w, op, arg) ==
    /\ stack' = w.stack
    /\ sheap' = [owner |-> w.owner, mem |-> w.mem, d_count |-> w.d_count,
                 failed |-> w.failed, ub |-> w.ub]
    /\ stlast' = [op |-> op, arg |-> arg, exc |-> w.exc, log |-> w.log,
                  n |-> stlast.n + 1,
                  pre |-> [stack |-> stack, owner |-> sheap.owner, mem |-> sheap.mem]]
    /\ UNCHANGED <<clientVars, aaVars, recVars, arrVars, seqVars, attVars, prtVars>>

InitStack ==
    /\ ClientIdle
    /\ excBuild = TRUE
    /\ AAInit
    /\ RecInit
    /\ ArrIdle
    /\ SeqIdle
    /\ StackIdle
    /\ AttrIdle
    /\ PrintIdle

\* my_DoubleStack s(&a);  or  my_DoubleStack s;
DoubleStackCtorStep(basicAllocator) ==
    /\ ~sheap.ub /\ stlast.n < MaxStackOps
    /\ ~stack.alive
    /\ \E k \in StackFreeChoice :
           StackCommit(DoubleStackCtor(StackState, basicAllocator, k),
                       "my_DoubleStack", basicAllocator)

\* s.push(value)
PushStep(value) ==
    /\ ~sheap.ub /\ stlast.n < MaxStackOps
    /\ stack.alive
    /\ \E k \in StackFreeChoice :
           StackCommit(Push(StackState, value, k), "push", value)

\* s goes out of scope
DoubleStackDtorStep ==
    /\ ~sheap.ub /\ stlast.n < MaxStackOps
    /\ stack.alive
    /\ StackCommit(DoubleStackDtor(StackState), "~my_DoubleStack", 0)

NextStack ==
    \/ \E basicAllocator \in {"0", "a"} : DoubleStackCtorStep(basicAllocator)
    \/ \E value \in DoubleValues : PushStep(value)
    \/ DoubleStackDtorStep

SpecStack == InitStack /\ [][NextStack]_vars

----------------------------------------------------------------------------
(* The program of a client of ball::Attribute.                             *)

AttrState == [attribs |-> attribs, ret |-> -1]

AttrCommit(w, op, x, y, size) ==
    /\ attribs' = w.attribs
    /\ atlast' = [op |-> op, x |-> x, y |-> y, size |-> size, ret |-> w.ret]
    /\ UNCHANGED <<clientVars, aaVars, recVars, arrVars, seqVars, stkVars, prtVars>>

InitAttr ==
    /\ ClientIdle
    /\ excBuild = TRUE
    /\ AAInit
    /\ RecInit
    /\ ArrIdle
    /\ SeqIdle
    /\ StackIdle
    /\ AttrIdle
    /\ PrintIdle

\* ball::Attribute x(name, value);
AttributeValueCtorStep(x, name, overload) ==
    /\ ~attribs[x].alive
    /\ \E arg \in ArgumentsOf(overload) :
           AttrCommit(AttributeValueCtor(AttrState, x, name, arg),
                      "Attribute", x, "none", 0)

\* ball::Attribute x(y);
AttributeCopyCtorStep(x, y) ==
    /\ ~attribs[x].alive /\ attribs[y].alive
    /\ AttrCommit(AttributeCopyCtor(AttrState, x, y), "copy", x, y, 0)

\* x = y;
AttributeAssignStep(x, y) ==
    /\ attribs[x].alive /\ attribs[y].alive
    /\ AttrCommit(AttributeAssign(AttrState, x, y), "operator=", x, y, 0)

\* x.setName(name);
AttributeSetNameStep(x, name) ==
    /\ attribs[x].alive
    /\ AttrCommit(AttributeSetName(AttrState, x, name), "setName", x, "none", 0)

\* x.setValue(value);
AttributeSetValueStep(x, overload) ==
    /\ attribs[x].alive
    /\ \E arg \in ArgumentsOf(overload) :
           AttrCommit(AttributeSetValue(AttrState, x, arg), "setValue", x, "none", 0)

\* ball::Attribute::hash(x, size);
AttributeHashStep(x, size) ==
    /\ attribs[x].alive
    /\ AttrCommit(AttributeHash(AttrState, x, size), "hash", x, "none", size)

\* x goes out of scope
AttributeDtorStep(x) ==
    /\ attribs[x].alive
    /\ AttrCommit(AttributeDtor(AttrState, x), "~Attribute", x, "none", 0)

NextAttr ==
    \/ \E x \in AttrSlots, name \in LiteralNames, overload \in ValueOverloads :
           AttributeValueCtorStep(x, name, overload)
    \/ \E x, y \in AttrSlots : AttributeCopyCtorStep(x, y)
    \/ \E x, y \in AttrSlots : AttributeAssignStep(x, y)
    \/ \E x \in AttrSlots, name \in LiteralNames : AttributeSetNameStep(x, name)
    \/ \E x \in AttrSlots, overload \in ValueOverloads : AttributeSetValueStep(x, overload)
    \/ \E x \in AttrSlots, size \in HashSizes : AttributeHashStep(x, size)
    \/ \E x \in AttrSlots : AttributeDtorStep(x)

SpecAttr == InitAttr /\ [][NextAttr]_vars

----------------------------------------------------------------------------
(* The program of a client of balxml::TypesPrintUtil: an object and a      *)
(* formatting mode are chosen and printed to an empty stream.              *)

SimpleTypes == {"bool", "int", "string"}

ElementTypes == {"int", "char", "Nullable<int>", "Sequence"}

SimpleObjects ==
    {Obj("Simple", b, "none", <<Elem(v)>>) : b \in SimpleTypes, v \in PrintValues}

ArrayObjects ==
    {Obj("Array", b, "none", es) :
        b \in ElementTypes \ {"Nullable<int>"},
        es \in SeqsUpTo({Elem(v) : v \in PrintValues}, MaxElems)}
    \cup {Obj("Array", "Nullable<int>", "none", es) :
             es \in SeqsUpTo({NullElem} \cup {Elem(v) : v \in PrintValues}, MaxElems)}

StaticObjects ==
    SimpleObjects
    \cup ArrayObjects
    \cup {Obj("Enumeration", "enum", "none", <<Elem(v)>>) : v \in PrintValues}
    \cup {Obj("CustomizedType", b, "none", <<Elem(1)>>) : b \in {"int", "string"}}
    \cup {Obj("NullableValue", "int", "none", <<e>>) : e \in {NullElem, Elem(1)}}
    \cup {Obj("Sequence", "Sequence", "none", <<>>)}

\* Objects of a dynamic type, whose category is known only at run time.
DynamicObjects ==
    {[o EXCEPT !.cat = "DynamicType", !.dyn = o.cat] :
        o \in {s \in StaticObjects : s.cat # "Array" \/ Len(s.elems) <= 1}}

PrintObjects == StaticObjects \cup DynamicObjects

\* The formatting modes passed: every value of the type bits, with and
\* without the list bit and one other flag.
FormattingModes ==
    {type + list + flag : type \in 0 .. e_TYPE_MASK, list \in {0, e_LIST},
                          flag \in {0, e_ATTRIBUTE}}

PrintState ==
    [stream |-> prt.stream, delegated |-> prt.delegated, aborted |-> prt.aborted]

PrintCommit(w, op) ==
    /\ prt' = [prt EXCEPT !.op = op, !.stream = w.stream,
                          !.delegated = w.delegated, !.aborted = w.aborted]
    /\ UNCHANGED <<safeBuild, clientVars, aaVars, recVars, arrVars, seqVars, stkVars,
                   attVars>>

InitPrint ==
    /\ ClientIdle
    /\ excBuild = TRUE
    /\ AAInit
    /\ RecInit
    /\ ArrIdle
    /\ SeqIdle
    /\ StackIdle
    /\ AttrIdle
    /\ safeBuild \in BOOLEAN
    /\ prt \in {[op |-> "idle", object |-> o, formattingMode |-> m,
                 stream |-> EmptyStream, delegated |-> <<>>, aborted |-> FALSE] :
                o \in PrintObjects, m \in FormattingModes}

\* balxml::TypesPrintUtil::print(stream, object, formattingMode);
PrintStep ==
    /\ prt.op = "idle"
    /\ PrintCommit(TypesPrintUtilPrint(PrintState, prt.object, prt.formattingMode), "print")

\* balxml::TypesPrintUtil::printList(stream, object);
PrintListStep ==
    /\ prt.op = "idle"
    /\ prt.formattingMode = e_LIST
    /\ PrintCommit(PrintList(PrintState, prt.object), "printList")

NextPrint ==
    \/ PrintStep
    \/ PrintListStep

SpecPrint == InitPrint /\ [][NextPrint]_vars

----------------------------------------------------------------------------
(* Vocabulary of the properties *)

\* The events of one kind in the last operation's log.
Events(kind) == SelectSeq(log, LAMBDA e : e.ev = kind)

\* The allocator calls of the last operation, in order.
AllocatorCalls == SelectSeq(log, LAMBDA e : e.ev \in {"allocate", "deallocate"})

\* The classes whose destructors the last operation ran, in order.
DtorsRun == [i \in 1 .. Len(Events("dtor")) |-> Events("dtor")[i].who]

DtorPositions == {i \in 1 .. Len(log) : log[i].ev = "dtor"}

\* The part of the log after the last destructor has completed.
AfterDtors ==
    IF DtorPositions = {} THEN <<>>
    ELSE SubSeq(log, (CHOOSE i \in DtorPositions : \A j \in DtorPositions : j <= i) + 1,
                Len(log))

\* The call counter of the allocator in use: getCount() of my_NewDeleteAllocator,
\* allocateCount() + deallocateCount() of my_Allocator.
CallCount(n, m) ==
    IF myA = "nda" THEN n.d_count ELSE m.d_allocateCount + m.d_deallocateCount

\* The footprint of the object the last delete operation was given: the
\* address `allocate` returned for the complete object.
Footprint == last.p - Offset(last.st, last.cls)

HeapUnchanged ==
    /\ inUse = last.pre.inUse
    /\ hdr = last.pre.hdr
    /\ objs = last.pre.objs

NullDelete == last.op \in {"deleteObject", "deleteObjectRaw"} /\ last.p = 0

----------------------------------------------------------------------------
(* Properties *)

\* C1: deleteObject and deleteObjectRaw with a null pointer, typed or literal,
\* have no effect: no destructor runs, the allocator receives no call (its call
\* counter and all its members are as before), and the heap, the objects and
\* the class counters are unchanged.
C1_NullDeleteNoEffect ==
    NullDelete =>
        /\ log = <<>>
        /\ nda = last.pre.nda
        /\ mya = last.pre.mya
        /\ CallCount(nda, mya) = CallCount(last.pre.nda, last.pre.mya)
        /\ ctr = last.pre.ctr
        /\ HeapUnchanged
        /\ testStatus = last.pre.testStatus
        /\ ~ub

\* C1 witness: a typed null my_Class3 pointer was deleted while a my_Class3
\* object is alive and the allocator has already served calls.
C1_Witness ==
    /\ NullDelete
    /\ last.op = "deleteObject"
    /\ last.st = "my_Class3"
    /\ ctr.class3ObjectCount = 1
    /\ CallCount(nda, mya) > 0

\* C2: deleteObject on a non-null pointer to a live object runs the object's
\* destructor exactly once (every destructor of the complete object's chain,
\* once, most-derived first); once the destructor has completed it calls
\* deallocate exactly once; it makes no allocate call; the allocator's call
\* counter rises by the deallocate calls made, which is one for every class
\* whose destructor calls no allocator itself.
C2_DeleteObjectOnce ==
    (last.op = "deleteObject" /\ last.p # 0) =>
        /\ DtorsRun = DtorChain(last.cls, last.cls)
        /\ Len(AfterDtors) = 1
        /\ AfterDtors[1].ev = "deallocate"
        /\ Events("allocate") = <<>>
        /\ CallCount(nda, mya) =
               CallCount(last.pre.nda, last.pre.mya) + Len(Events("deallocate"))
        /\ last.cls # "my_Type" => Len(Events("deallocate")) = 1
        /\ last.cls = "my_Class3" =>
               ctr.class3ObjectCount = last.pre.ctr.class3ObjectCount - 1
        /\ last.cls \in {"my_Class1", "my_Class2"} => ctr.globalObjectStatus = 0
        /\ objs[Footprint] = NoObj

\* C2 witness: a my_Class3 object was deleted through a my_Class3Base pointer.
C2_Witness ==
    /\ last.op = "deleteObject"
    /\ last.p # 0
    /\ last.cls = "my_Class3"
    /\ last.st = "my_Class3Base"
    /\ Len(Events("dtor")) = 2

\* C3: deleteObject through a pointer of any of the four static types to a
\* my_MostDerived object runs all four destructors (the four counters are 0)
\* and issues exactly one deallocate call, whose argument is the address
\* allocate returned for the complete object (a block in use before the call
\* and released by it), not the adjusted base pointer; the allocator's
\* header check passes.
C3_DiamondDelete ==
    (last.op = "deleteObject" /\ last.cls = "my_MostDerived") =>
        /\ ctr.virtualBaseObjectCount = 0
        /\ ctr.leftBaseObjectCount = 0
        /\ ctr.rightBaseObjectCount = 0
        /\ ctr.mostDerivedObjectCount = 0
        /\ Len(DtorsRun) = 4
        /\ Len(AllocatorCalls) = 1
        /\ AllocatorCalls[1].ev = "deallocate"
        /\ AllocatorCalls[1].arg = Footprint
        /\ Footprint \in HeapAddrs
        /\ BlockOf(Footprint) \in last.pre.inUse \ inUse
        /\ last.pre.hdr[BlockOf(Footprint)] = "MAGIC"
        /\ nda.d_count = last.pre.nda.d_count + 1
        /\ testStatus = last.pre.testStatus
        /\ ~ub

\* C3 witness: the object was deleted through a my_RightBase pointer whose
\* value differs from the footprint address.
C3_Witness ==
    /\ last.op = "deleteObject"
    /\ last.cls = "my_MostDerived"
    /\ last.st = "my_RightBase"
    /\ last.p # Footprint
    /\ AllocatorCalls[1].arg # last.p

\* The last operation was `new (a) T` and T's constructor ran and threw.
CtorThrew ==
    /\ last.op = "new"
    /\ Events("ctor") # <<>>
    /\ last.exc # "none"

\* C4 as claimed: when T's constructor throws in `new (a) T`, the allocator
\* receives exactly one allocate call and exactly one deallocate call, the
\* latter with the pointer the former returned and as the last allocator call;
\* no block is outstanding that was not before, no pointer reaches the caller
\* and the exception caught is the one thrown.
C4_Original ==
    CtorThrew =>
        /\ Len(Events("allocate")) = 1
        /\ Len(Events("deallocate")) = 1
        /\ Events("deallocate")[1].arg = Events("allocate")[1].ret
        /\ log[Len(log)].ev = "deallocate"
        /\ inUse = last.pre.inUse
        /\ last.ret = 0
        /\ last.exc = Events("throw")[1].who

\* C4: when T's constructor throws in `new (a) T`, the new-expression itself
\* makes exactly one allocate call, the first allocator call, for sizeof(T),
\* and exactly one deallocate call, the last allocator call, with the pointer
\* that allocate returned; these are the only allocator calls unless T's
\* constructor makes calls of its own (my_Type's does); no block is
\* outstanding that was not before, no object and no pointer reaches the
\* caller, and the exception caught is the one thrown, unchanged.
C4_ThrowingCtor ==
    CtorThrew =>
        /\ AllocatorCalls[1].ev = "allocate"
        /\ AllocatorCalls[1].arg = SizeOf(last.cls)
        /\ log[1] = AllocatorCalls[1]
        /\ log[Len(log)].ev = "deallocate"
        /\ log[Len(log)].arg = AllocatorCalls[1].ret
        /\ log[Len(log)].arg # 0
        /\ last.cls # "my_Type" => Len(AllocatorCalls) = 2
        /\ Len(Events("deallocate")) = 1
        /\ inUse = last.pre.inUse
        /\ objs = last.pre.objs
        /\ last.ret = 0
        /\ Len(Events("throw")) = 1
        /\ last.exc = Events("throw")[1].who
        /\ last.cls = "my_ClassThatMayThrowFromConstructor" => last.exc = "int 13"
        /\ myA = "nda" =>
               nda.d_count = last.pre.nda.d_count + Len(AllocatorCalls)
        /\ myA = "mya" =>
               /\ mya.d_fun = 2
               /\ mya.d_allocateCount = last.pre.mya.d_allocateCount + 1
               /\ mya.d_deallocateCount = last.pre.mya.d_deallocateCount + 1
        /\ testStatus = last.pre.testStatus
        /\ ~ub

\* C4 witness: my_ClassThatMayThrowFromConstructor threw int(13) out of
\* `new (a) T` on a my_Allocator that had served calls before.
C4_Witness ==
    /\ CtorThrew
    /\ myA = "mya"
    /\ last.exc = "int 13"
    /\ last.pre.mya.d_allocateCount > 0
    /\ mya.d_fun = 2

\* C5: allocate(0) counts as one call on the allocator although it returns a
\* null pointer and hands out no block, and deallocate of that null pointer
\* counts as one call too.
C5_ZeroSizeCounts ==
    /\ (last.op = "allocate" /\ last.p = 0) =>
           /\ last.ret = 0
           /\ last.exc = "none"
           /\ HeapUnchanged
           /\ CallCount(nda, mya) = CallCount(last.pre.nda, last.pre.mya) + 1
           /\ myA = "mya" =>
                  mya.d_allocateCount = last.pre.mya.d_allocateCount + 1
    /\ (last.op = "deallocate" /\ last.p = 0) =>
           /\ CallCount(nda, mya) = CallCount(last.pre.nda, last.pre.mya) + 1
           /\ myA = "mya" =>
                  mya.d_deallocateCount = last.pre.mya.d_deallocateCount + 1
    /\ (last.op = "pair" /\ last.p = 0) =>
           /\ Len(log) = 2
           /\ log[1].ev = "allocate" /\ log[1].ret = 0
           /\ log[2].ev = "deallocate" /\ log[2].arg = 0
           /\ CallCount(nda, mya) = CallCount(last.pre.nda, last.pre.mya) + 2

\* C5 witness: my_NewDeleteAllocator served allocate(0) followed by the
\* deallocate of the null pointer it returned, with a block outstanding.
C5_Witness ==
    /\ last.op = "pair"
    /\ last.p = 0
    /\ myA = "nda"
    /\ inUse # {}
    /\ nda.d_count = last.pre.nda.d_count + 2

\* C6 as claimed: deallocate of a null pointer leaves the allocator's state as
\* it was before the call.
C6_Original ==
    (last.op = "deallocate" /\ last.p = 0) =>
        /\ nda = last.pre.nda
        /\ mya = last.pre.mya
        /\ HeapUnchanged

\* C6: deallocate of a null pointer releases no block and leaves the heap, the
\* block headers and the objects as they were, without a failed assertion;
\* the only change to the allocator is its record of the call
\* (my_NewDeleteAllocator: d_count rises by one; my_Allocator: d_fun is 2 and
\* d_deallocateCount rises by one).
C6_NullDeallocate ==
    (last.op = "deallocate" /\ last.p = 0) =>
        /\ HeapUnchanged
        /\ ctr = last.pre.ctr
        /\ testStatus = last.pre.testStatus
        /\ ~ub
        /\ myA = "nda" =>
               /\ nda = [last.pre.nda EXCEPT !.d_count = @ + 1]
               /\ mya = last.pre.mya
        /\ myA = "mya" =>
               /\ mya = [last.pre.mya EXCEPT !.d_fun = 2, !.d_deallocateCount = @ + 1]
               /\ nda = last.pre.nda

\* C6 witness: a null pointer was deallocated on my_NewDeleteAllocator while
\* a block was outstanding.
C6_Witness ==
    /\ last.op = "deallocate"
    /\ last.p = 0
    /\ myA = "nda"
    /\ inUse # {}

\* Every allocation the allocator could serve before the last operation it
\* can serve now: each block global operator new could hand out then is free
\* now, and allocate succeeds on it.
AbleToServe ==
    \A n \in AllocSizes, k \in FreeChoice(last.pre.inUse) :
        /\ k \in FreeChoice(inUse)
        /\ (k # 0 \/ n = 0 \/ myA = "mya") =>
               LET r == Allocate(myA, State, n, k) IN
               /\ r.exc = "none"
               /\ ~r.ub
               /\ r.testStatus = testStatus
               /\ (n # 0) = (r.ret # 0)

\* C7: A.deallocate(A.allocate(n)), for n >= 0 and wherever allocate returns,
\* fails no assertion and is no undefined behaviour, leaves the outstanding
\* blocks and the objects as before the pair, counts as two calls, and leaves
\* A able to serve the allocations it could serve before; in every reachable
\* state, hence after any number of such pairs.
C7_PairRoundTrip ==
    (last.op = "pair" /\ last.exc = "none") =>
        /\ Len(log) = 2
        /\ log[1].ev = "allocate"
        /\ log[2].ev = "deallocate"
        /\ log[2].arg = log[1].ret
        /\ testStatus = last.pre.testStatus
        /\ ~ub
        /\ inUse = last.pre.inUse
        /\ objs = last.pre.objs
        /\ CallCount(nda, mya) = CallCount(last.pre.nda, last.pre.mya) + 2
        /\ AbleToServe

\* C7 witness: a pair with n > 0 on my_NewDeleteAllocator, after an earlier
\* pair, while another block is outstanding.
C7_Witness ==
    /\ last.op = "pair"
    /\ last.exc = "none"
    /\ last.p > 0
    /\ myA = "nda"
    /\ nda.d_count >= 4
    /\ inUse # {}
    /\ hdr[BlockOf(log[1].ret)] = "DELETED"

\* The last operation was `new (a) T` and operator new's allocate returned.
NewAllocated == last.op = "new" /\ log[1].ret # -1

\* C8 as claimed: `new (a) T`, for any T, calls allocate exactly once, with
\* sizeof(T), calls no deallocate and yields the pointer allocate returned.
C8_Original ==
    NewAllocated =>
        /\ Len(Events("allocate")) = 1
        /\ Events("allocate")[1].arg = SizeOf(last.cls)
        /\ Events("deallocate") = <<>>
        /\ last.ret = Events("allocate")[1].ret

\* C8: the first allocator call of `new (a) T` is allocate(sizeof(T)); when
\* T's constructor completes normally the expression calls no deallocate and
\* yields exactly the pointer that allocate returned, and that allocate call is
\* the only one unless T's constructor itself allocates (my_Type's does).
C8_NewAllocatesOnce ==
    NewAllocated =>
        /\ log[1].ev = "allocate"
        /\ log[1].arg = SizeOf(last.cls)
        /\ last.exc = "none" =>
               /\ Events("deallocate") = <<>>
               /\ last.ret = log[1].ret
               /\ last.ret # 0
               /\ last.cls # "my_Type" => Len(Events("allocate")) = 1
               /\ myA = "mya" =>
                      /\ last.ret = MyAAddr
                      /\ mya.d_fun = 1
                      /\ mya.d_arg = SizeOf(last.cls)
                      /\ mya.d_allocateCount = last.pre.mya.d_allocateCount + 1
                      /\ mya.d_deallocateCount = last.pre.mya.d_deallocateCount
               /\ myA = "nda" =>
                      /\ BlockOf(last.ret) \in inUse \ last.pre.inUse
                      /\ bsize[BlockOf(last.ret)] = SizeOf(last.cls)
                      /\ nda.d_count = last.pre.nda.d_count + Len(Events("allocate"))

\* C8 witness: `new (a) X15` on a my_Allocator returned the allocator's
\* address and recorded 15 as the argument.
C8_Witness ==
    /\ NewAllocated
    /\ last.cls = "X15"
    /\ myA = "mya"
    /\ mya.d_arg = 15
    /\ last.ret = MyAAddr

\* C9: the placement delete runs only on the failure path of `new (a) T`:
\* when the constructor completes normally no deallocate call is made and the
\* footprint is outstanding; the footprint of every live object stays
\* outstanding, and a block is released only by an operation in which the
\* client deallocates (deallocate, deleteObject, deleteObjectRaw, or
\* destructor call followed by deallocate).
C9_DeleteOnlyOnFailure ==
    /\ (last.op = "new" /\ last.exc = "none") =>
           /\ Events("deallocate") = <<>>
           /\ last.ret # 0
           /\ last.cls \notin ScalarTypes => objs[last.ret].cls = last.cls
           /\ myA = "nda" =>
                  /\ BlockOf(last.ret) \in inUse
                  /\ hdr[BlockOf(last.ret)] = "MAGIC"
           /\ myA = "mya" =>
                  mya.d_deallocateCount = last.pre.mya.d_deallocateCount
    /\ \A b \in LiveObjects \cap HeapAddrs :
           BlockOf(b) \in inUse /\ hdr[BlockOf(b)] = "MAGIC"
    /\ last.pre.inUse \ inUse # {} =>
           last.op \in {"deallocate", "deleteObject", "deleteObjectRaw",
                        "destroyDeallocate"}

\* C9 witness: `new (a) my_Type` succeeded on my_NewDeleteAllocator; the
\* object is alive in its footprint.
C9_Witness ==
    /\ last.op = "new"
    /\ last.exc = "none"
    /\ last.cls = "my_Type"
    /\ myA = "nda"
    /\ last.ret \in LiveObjects
    /\ BlockOf(last.ret) \in inUse

\* C10: deleteObjectRaw on a pointer to the complete object runs the object's
\* destructor exactly once (for a virtual destructor the most-derived
\* destructor and then every base destructor), then calls deallocate exactly
\* once, with the pointer's own address; the allocator counts the call and
\* releases the block without a failed assertion.
C10_DeleteObjectRaw ==
    (last.op = "deleteObjectRaw" /\ last.p # 0 /\ last.st = last.cls) =>
        /\ DtorsRun = DtorChain(last.cls, last.cls)
        /\ Len(AfterDtors) = 1
        /\ AfterDtors[1].ev = "deallocate"
        /\ AfterDtors[1].arg = last.p
        /\ Events("allocate") = <<>>
        /\ last.cls # "my_Type" => Len(Events("deallocate")) = 1
        /\ CallCount(nda, mya) =
               CallCount(last.pre.nda, last.pre.mya) + Len(Events("deallocate"))
        /\ last.cls = "my_MostDerived" =>
               /\ ctr.virtualBaseObjectCount = 0
               /\ ctr.leftBaseObjectCount = 0
               /\ ctr.rightBaseObjectCount = 0
               /\ ctr.mostDerivedObjectCount = 0
        /\ last.cls = "my_Class3" =>
               ctr.class3ObjectCount = last.pre.ctr.class3ObjectCount - 1
        /\ last.cls \in {"my_Class1", "my_Class2"} => ctr.globalObjectStatus = 0
        /\ objs[last.p] = NoObj
        /\ myA = "nda" => BlockOf(last.p) \in last.pre.inUse \ inUse
        /\ testStatus = last.pre.testStatus
        /\ ~ub

\* C10 witness: a my_MostDerived object was deleted with deleteObjectRaw
\* through a my_MostDerived pointer.
C10_Witness ==
    /\ last.op = "deleteObjectRaw"
    /\ last.p # 0
    /\ last.cls = "my_MostDerived"
    /\ last.st = "my_MostDerived"
    /\ Len(DtorsRun) = 4

\* The machine state before the last operation, and the one it produced.
PreState ==
    [nda |-> last.pre.nda, mya |-> last.pre.mya, hdr |-> last.pre.hdr,
     inUse |-> last.pre.inUse, bsize |-> last.pre.bsize, objs |-> last.pre.objs,
     ctr |-> last.pre.ctr, testStatus |-> last.pre.testStatus, ub |-> FALSE,
     log |-> <<>>, ret |-> 0, exc |-> "none"]

PostState == [State EXCEPT !.log = log, !.ret = last.ret, !.exc = last.exc]

\* The last operation deleted a live object through a pointer of the complete
\* object's own type.
CompleteDelete ==
    /\ last.op \in {"deleteObject", "deleteObjectRaw"}
    /\ last.p # 0
    /\ last.st = last.cls

\* C11: for a pointer to the complete object, deleteObject and deleteObjectRaw
\* are equivalent: whichever of the two was called, the other, called in the
\* same state on the same object and allocator, produces the same sequence of
\* destructor runs followed by one deallocate call with the same address (the
\* pointer's own), and the same state of the allocator, heap, objects and
\* counters.
C11_DeleteEquivalence ==
    CompleteDelete =>
        /\ PostState = DeleteObject(myA, PreState, last.p, last.st, "JUNK")
        /\ PostState = DeleteObjectRaw(myA, PreState, last.p, last.st, "JUNK")
        /\ DtorsRun = DtorChain(last.cls, last.cls)
        /\ Len(AfterDtors) = 1
        /\ AfterDtors[1].ev = "deallocate"
        /\ AfterDtors[1].arg = last.p

\* C11 witness: deleteObject was called on a my_MostDerived object through a
\* my_MostDerived pointer, and deleteObjectRaw yields the very same state.
C11_Witness ==
    /\ CompleteDelete
    /\ last.op = "deleteObject"
    /\ last.cls = "my_MostDerived"
    /\ myA = "nda"
    /\ PostState = DeleteObjectRaw(myA, PreState, last.p, last.st, "JUNK")
    /\ BlockOf(last.p) \in last.pre.inUse \ inUse

\* The last operation was `new (a) T` and the allocate call of operator new
\* failed to supply the footprint.
NewAllocationFailed ==
    /\ last.op = "new"
    /\ log[1].ev = "allocate"
    /\ log[1].ret = -1

\* C13: when the allocate call of `new (a) T` fails to supply memory, the
\* failure reaches the caller unchanged (the exception in flight is the one
\* allocate threw, and it is the only one thrown); T's constructor is not
\* run, no deallocate call is made, no pointer is yielded, and heap and
\* objects are as before: the one allocate call is all the allocator received.
C13_AllocationFailure ==
    NewAllocationFailed =>
        /\ Events("ctor") = <<>>
        /\ Events("deallocate") = <<>>
        /\ Len(Events("allocate")) = 1
        /\ log[1].arg = SizeOf(last.cls)
        /\ Len(Events("throw")) = 1
        /\ Events("throw")[1].who = "bad_alloc"
        /\ last.exc = "bad_alloc"
        /\ last.ret = 0
        /\ HeapUnchanged
        /\ ctr = last.pre.ctr
        /\ nda.d_count = last.pre.nda.d_count + 1
        /\ testStatus = last.pre.testStatus
        /\ ~ub

\* C13 witness: `new (a) my_Type` on my_NewDeleteAllocator with every block of
\* the heap outstanding.
C13_Witness ==
    /\ NewAllocationFailed
    /\ last.cls = "my_Type"
    /\ myA = "nda"
    /\ last.pre.inUse = Blocks
    /\ last.exc = "bad_alloc"

\* The calls of the last operation that entered a method of the allocator
\* (the throw of a failed allocation is no call).
MethodCalls == SelectSeq(log, LAMBDA e : e.ev # "throw")

\* C14: through the memory_resource interface, allocate(bytes, alignment) on an
\* allocator that overrides only allocate and deallocate enters exactly one
\* method, the overridden allocate, with the bytes requested, and
\* deallocate(p, bytes, alignment) exactly one, the overridden deallocate (with
\* p, for a block of non-zero size); on AllocatorProtocolTest, which overrides
\* do_allocate and do_deallocate, exactly one method is entered too, the
\* override, and allocate and deallocate are not called.
C14_ResourceInterface ==
    /\ (last.op = "r_allocate" /\ myA # "apt") =>
           /\ Len(MethodCalls) = 1
           /\ MethodCalls[1].ev = "allocate"
           /\ MethodCalls[1].who = myA
           /\ MethodCalls[1].arg = last.p
           /\ (last.p # 0 /\ last.exc = "none") => last.ret = MethodCalls[1].ret
    /\ (last.op = "r_deallocate" /\ myA # "apt") =>
           /\ Len(MethodCalls) = 1
           /\ MethodCalls[1].ev = "deallocate"
           /\ MethodCalls[1].who = myA
           /\ last.p # ZeroSizeBlock => MethodCalls[1].arg = last.p
    /\ (last.op = "r_allocate" /\ myA = "apt") =>
           /\ Len(MethodCalls) = 1
           /\ MethodCalls[1].ev = "do_allocate"
           /\ MethodCalls[1].arg = last.p
           /\ last.ret = AptDoBuf
    /\ (last.op = "r_deallocate" /\ myA = "apt") =>
           /\ Len(MethodCalls) = 1
           /\ MethodCalls[1].ev = "do_deallocate"
           /\ MethodCalls[1].arg = last.p

\* C14 witness: Base::deallocate(p, 2, 1) on an IndirectProtocolTest reached
\* IndirectProtocolTest::deallocate with p.
C14_Witness ==
    /\ last.op = "r_deallocate"
    /\ myA = "ipt"
    /\ last.p = IptBuf
    /\ Len(log) = 1
    /\ log[1].ev = "deallocate"
    /\ log[1].arg = IptBuf

\* C15: a zero-byte allocation through the memory_resource interface of an
\* allocator whose allocate(0) returns null yields a non-null pointer, the
\* same one (ZeroSizeBlock) on every call, counts as one call on the allocator
\* and takes no block; the deallocate of that zero-size block counts as one
\* call too, releases nothing, fails no assertion and is no undefined
\* behaviour.
C15_ZeroBytesResource ==
    /\ (last.op = "r_allocate" /\ last.p = 0) =>
           /\ Len(MethodCalls) = 1
           /\ MethodCalls[1].ret = 0
           /\ last.ret # 0
           /\ last.ret = ZeroSizeBlock
           /\ last.exc = "none"
           /\ CallCount(nda, mya) = CallCount(last.pre.nda, last.pre.mya) + 1
           /\ HeapUnchanged
    /\ (last.op = "r_deallocate" /\ last.p = ZeroSizeBlock) =>
           /\ CallCount(nda, mya) = CallCount(last.pre.nda, last.pre.mya) + 1
           /\ HeapUnchanged
           /\ testStatus = last.pre.testStatus
           /\ ~ub

\* C15 witness: the zero-size block was deallocated through the
\* memory_resource interface of a my_NewDeleteAllocator after two zero-byte
\* allocations: getCount() is 3.
C15_Witness ==
    /\ last.op = "r_deallocate"
    /\ last.p = ZeroSizeBlock
    /\ myA = "nda"
    /\ nda.d_count = 3
    /\ inUse = {}

----------------------------------------------------------------------------
(* Allocator-aware value types *)

\* The allocators whose numBlocksTotal rose in the last operation.
AllocatedFrom ==
    {a \in TestAllocators :
        tallocs[a].numBlocksTotal > aalast.pre.tallocs[a].numBlocksTotal}

\* C16: copy construction without an allocator argument, or with a
\* default-constructed one, makes the default allocator in effect the new
\* object's allocator, whatever the source's allocator is; with an allocator
\* argument that allocator becomes the object's allocator.  In every case the
\* new object equals the source, the source's value and allocator are
\* unchanged, and no memory is taken from an allocator other than the new
\* object's (the footprint of the new object apart, which the new expression
\* takes from the footprint allocator).
C16_CopyConstruction ==
    aalast.op = "copy_ctor" =>
        LET x == aalast.x
            y == aalast.y
        IN /\ aalast.cfg \in {"none", "allocator_type()"} =>
                  aaobjs[x].alloc = DefaultAllocator
           /\ aalast.cfg \in ObjectAllocators => aaobjs[x].alloc = aalast.cfg
           /\ aaobjs[x].value = aaobjs[y].value
           /\ aaobjs[y] = aalast.pre.aaobjs[y]
           /\ AllocatedFrom \subseteq {aaobjs[x].alloc, FootprintAllocator}
           /\ tallocs[FootprintAllocator].numBlocksTotal =
                  aalast.pre.tallocs[FootprintAllocator].numBlocksTotal + 1

\* A long-string object of allocator s1 has been copied without an allocator
\* argument, and the copy took its buffer from the default allocator.
C16_Witness ==
    /\ aalast.op = "copy_ctor"
    /\ aalast.cfg = "none"
    /\ aalast.pre.aaobjs[aalast.y].alloc = "s1"
    /\ IsLong(aalast.pre.aaobjs[aalast.y].value.description)
    /\ DefaultAllocator \in AllocatedFrom

\* C17: copy assignment and move assignment change the allocator of neither
\* object: after x = y or x = move(y), for any values and any pair of
\* allocators, x and y have the allocators they had before, x has the value
\* y had before, and the operator returns a reference to x; assigning an
\* object to itself leaves its value unchanged.
C17_AssignmentKeepsAllocators ==
    aalast.op \in {"copy_assign", "move_assign"} =>
        LET x == aalast.x
            y == aalast.y
        IN /\ aaobjs[x].alloc = aalast.pre.aaobjs[x].alloc
           /\ aaobjs[y].alloc = aalast.pre.aaobjs[y].alloc
           /\ aaobjs[x].value = aalast.pre.aaobjs[y].value
           /\ aalast.ret = x
           /\ x = y => aaobjs[x].value = aalast.pre.aaobjs[x].value

\* An object has been assigned the different value of an object that uses
\* another allocator.
C17_Witness ==
    /\ aalast.op = "copy_assign"
    /\ aalast.x # aalast.y
    /\ aalast.pre.aaobjs[aalast.x].alloc # aalast.pre.aaobjs[aalast.y].alloc
    /\ aalast.pre.aaobjs[aalast.x].value # aalast.pre.aaobjs[aalast.y].value
    /\ IsLong(aaobjs[aalast.x].value.description)

\* C18: move construction yields an object that has the value the source had
\* before the move.  Without an allocator argument the new object uses the
\* source's allocator and no allocation occurs; with an allocator equal to
\* the source's no allocation occurs; with a different allocator the source's
\* value is unchanged and the new object allocates from the supplied
\* allocator only.  The source's allocator is never changed.  (The footprint
\* of the new object apart, which the new expression takes from the
\* footprint allocator.)
C18_MoveConstruction ==
    aalast.op = "move_ctor" =>
        LET x == aalast.x
            y == aalast.y
            before == aalast.pre.aaobjs[y]
            supplied == AllocatorType(aalast.cfg)
        IN /\ aaobjs[x].value = before.value
           /\ aaobjs[y].alloc = before.alloc
           /\ aalast.cfg = "none" =>
                  /\ aaobjs[x].alloc = before.alloc
                  /\ AllocatedFrom \subseteq {FootprintAllocator}
           /\ (aalast.cfg # "none" /\ supplied = before.alloc) =>
                  /\ aaobjs[x].alloc = supplied
                  /\ AllocatedFrom \subseteq {FootprintAllocator}
           /\ (aalast.cfg # "none" /\ supplied # before.alloc) =>
                  /\ aaobjs[x].alloc = supplied
                  /\ aaobjs[y].value = before.value
                  /\ AllocatedFrom \subseteq {supplied, FootprintAllocator}

\* A long-string object has been moved into a new object without an
\* allocator argument, and the new object holds the source's buffer.
C18_Witness ==
    /\ aalast.op = "move_ctor"
    /\ aalast.cfg = "none"
    /\ aalast.pre.aaobjs[aalast.y].alloc = "s1"
    /\ IsLong(aaobjs[aalast.x].value.description)
    /\ aaobjs[aalast.x].buffer
    /\ tallocs["s1"].numBlocksInUse = 1

\* C19: move assignment x = move(y): when x and y use the same allocator no
\* allocation is made from any allocator; when they use different allocators
\* y's value is not modified and any allocation comes from x's allocator
\* only; in both cases x ends with the value y had before.
C19_MoveAssignment ==
    aalast.op = "move_assign" =>
        LET x == aalast.x
            y == aalast.y
            xAlloc == aalast.pre.aaobjs[x].alloc
            yAlloc == aalast.pre.aaobjs[y].alloc
        IN /\ xAlloc = yAlloc => AllocatedFrom = {}
           /\ xAlloc # yAlloc =>
                  /\ aaobjs[y].value = aalast.pre.aaobjs[y].value
                  /\ AllocatedFrom \subseteq {xAlloc}
           /\ aaobjs[x].value = aalast.pre.aaobjs[y].value

\* An object holding no buffer has been move-assigned the long string of
\* another object of the same allocator.
C19_Witness ==
    /\ aalast.op = "move_assign"
    /\ aalast.x # aalast.y
    /\ aalast.pre.aaobjs[aalast.x].alloc = aalast.pre.aaobjs[aalast.y].alloc
    /\ ~aalast.pre.aaobjs[aalast.x].buffer
    /\ IsLong(aaobjs[aalast.x].value.description)

\* The objects that hold a buffer obtained from allocator a.
BuffersOf(a) == {x \in LiveAA : aaobjs[x].alloc = a /\ aaobjs[x].buffer}

\* C20: after any sequence of construction, setter, copy, move, assignment
\* and swap operations, every allocation has been made from the allocator of
\* the object that owns the memory: the global allocator has handed out
\* nothing, an operation takes blocks only from allocators of the objects
\* that exist after it (so never from the default allocator when every
\* object was given another one) and from the footprint allocator, and the
\* blocks in use of each allocator are the buffers of the objects built with
\* it.  Once every object is destroyed each allocator has zero blocks in use.
C20_ObjectAllocatorOnly ==
    /\ tallocs["ga"].numBlocksTotal = 0
    /\ AllocatedFrom \subseteq
           {aaobjs[x].alloc : x \in LiveAA} \cup {FootprintAllocator}
    /\ \A a \in ObjectAllocators :
           tallocs[a].numBlocksInUse = Cardinality(BuffersOf(a))
    /\ tallocs[FootprintAllocator].numBlocksInUse = Cardinality(LiveAA)
    /\ LiveAA = {} => \A a \in TestAllocators : tallocs[a].numBlocksInUse = 0

\* Objects that were given allocator s1 have taken blocks from it, none has
\* come from the default allocator, and every object has been deleted.
C20_Witness ==
    /\ aalast.op = "deleteObject"
    /\ LiveAA = {}
    /\ tallocs["s1"].numBlocksTotal >= 2
    /\ tallocs[FootprintAllocator].numBlocksTotal >= 2
    /\ tallocs[DefaultAllocator].numBlocksTotal = 0

----------------------------------------------------------------------------
(* ball::Record *)

\* The allocator calls of the last operation on the records that are
\* deallocations made by bslma::Allocator::deleteObjectRaw itself.
FootprintDeallocations ==
    {i \in 1..Len(rlast.log) :
        rlast.log[i].ev = "deallocate" /\ rlast.log[i].by = "deleteObjectRaw"}

\* C22: Record::deleteObject(object) destroys *object and deallocates its
\* footprint through the allocator held by *object.  The held allocator is
\* the one supplied at construction, or the default allocator installed at
\* construction when none was supplied, and no later operation changes it.
\* deleteObject makes exactly one deallocate call of its own, with the
\* record's address, on that allocator, and no allocator call of the
\* operation goes to any other allocator.
C22_RecordDeleteObject ==
    /\ rlast.op \in {"ctor", "value_ctor", "copy_ctor"} =>
           recs[rlast.x].d_allocator_p =
               IF rlast.arg = "0" THEN rlast.pre.rdefault ELSE rlast.arg
    /\ \A r \in RecSlots :
           (rlast.pre.recs[r] # NoRecord /\ recs[r] # NoRecord) =>
               recs[r].d_allocator_p = rlast.pre.recs[r].d_allocator_p
    /\ rlast.op = "deleteObject" =>
           LET held == rlast.pre.recs[rlast.x].d_allocator_p
           IN /\ recs[rlast.x] = NoRecord
              /\ Cardinality(FootprintDeallocations) = 1
              /\ \A i \in FootprintDeallocations :
                     /\ rlast.log[i].who = held
                     /\ rlast.log[i].arg = FootprintOf(rlast.x)
                     /\ i = Len(rlast.log)
              /\ \A i \in 1..Len(rlast.log) : rlast.log[i].who = held

\* A record built without an allocator while da was the default allocator,
\* and holding attributes, has been deleted after db became the default.
C22_Witness ==
    /\ rlast.op = "deleteObject"
    /\ rlast.pre.recs[rlast.x].d_allocator_p = "da"
    /\ rlast.pre.rdefault = "db"
    /\ rlast.pre.recs[rlast.x].d_attributes # <<>>
    /\ Len(rlast.log) = 2

\* Two records whose fixed fields and whose user-defined fields have the
\* same value.
SameFields(lhs, rhs) ==
    /\ rlast.pre.recs[lhs].d_fixedFields = rlast.pre.recs[rhs].d_fixedFields
    /\ rlast.pre.recs[lhs].d_userFields = rlast.pre.recs[rhs].d_userFields

\* C23: operator== returns true if and only if the fixed fields of the two
\* records have the same value and their user-defined fields have the same
\* value; operator!= returns the negation of operator== for every pair of
\* records.
C23_RecordEquality ==
    /\ rlast.op = "operator==" => (rlast.ret <=> SameFields(rlast.x, rlast.y))
    /\ rlast.op = "operator!=" =>
           (rlast.ret <=> ~RecordEq(RWorld, rlast.x, rlast.y).ret)

----------------------------------------------------------------------------
(* bsl::array *)

\* C24: for an array of SIZE elements, at(pos) returns a reference to the
\* element at index pos, the element operator[] yields, for every
\* pos < SIZE, and throws out_of_range for every pos >= SIZE, for the const
\* and the non-const overload alike, and the array is unchanged when it
\* throws.
C24_ArrayAt ==
    arlast.op = "at" =>
        /\ arlast.pos < arr.SIZE =>
               /\ arlast.exc = "none"
               /\ arlast.ret = ElementAddress(arlast.pos)
               /\ arlast.ret = ArraySubscript(ArrState, arlast.pos).ret
        /\ arlast.pos >= arr.SIZE =>
               /\ arlast.exc = "out_of_range"
               /\ arr = arlast.pre

\* The const overload has been called with pos == SIZE on a non-empty array
\* and has thrown.
C24_Witness ==
    /\ arlast.op = "at"
    /\ arlast.const
    /\ arr.SIZE > 0
    /\ arlast.pos = arr.SIZE
    /\ arlast.exc = "out_of_range"

----------------------------------------------------------------------------
(* s_baltst::MySequenceWithDoubleAttribute *)

\* The one functor invocation of a successful call: on d_attribute1, with
\* its entry of ATTRIBUTE_INFO_ARRAY.
InvokedOnce ==
    slast.calls = <<[object |-> "d_attribute1",
                     info |-> ATTRIBUTE_INFO_ARRAY[ATTRIBUTE_INDEX_ATTRIBUTE1]]>>

\* The state a by-id call with the given id leaves, from the state before
\* the last call.
ByIdOutcome(id) ==
    LET before == [d_attribute1 |-> slast.pre.d_attribute1,
                   calls |-> <<>>, ret |-> 0]
    IN IF slast.op = "manipulateAttribute(name)"
       THEN ManipulateAttribute(before, slast.f, id)
       ELSE AccessAttribute(before, slast.f, id)

\* C25: manipulateAttribute(manipulator, id) and accessAttribute(accessor,
\* id) return -1 without invoking the functor when id identifies no
\* attribute, and otherwise invoke the functor exactly once on that
\* attribute with its attribute-info entry and return the functor's result;
\* the by-name overloads return -1 without invoking the functor when the
\* name lookup fails and otherwise behave exactly as the by-id call with the
\* id of the found attribute.
C25_AttributeById ==
    /\ slast.op \in {"manipulateAttribute", "accessAttribute"} =>
           IF slast.id = ATTRIBUTE_ID_ATTRIBUTE1
           THEN InvokedOnce /\ slast.ret = slast.f.result
           ELSE /\ slast.calls = <<>>
                /\ slast.ret = -1
                /\ seq = slast.pre
    /\ slast.op \in {"manipulateAttribute(name)", "accessAttribute(name)"} =>
           LET found == LookupAttributeInfo(slast.name, slast.nameLength)
           IN IF found = NullInfo
              THEN /\ slast.calls = <<>>
                   /\ slast.ret = -1
                   /\ seq = slast.pre
              ELSE /\ slast.calls = ByIdOutcome(found.d_id).calls
                   /\ slast.ret = ByIdOutcome(found.d_id).ret
                   /\ seq.d_attribute1 = ByIdOutcome(found.d_id).d_attribute1
                   /\ InvokedOnce
    /\ slast.op \in {"accessAttribute", "accessAttribute(name)"} =>
           seq = slast.pre

\* A manipulator that stores a value and returns 7 has been applied by the
\* attribute's name.
C25_Witness ==
    /\ slast.op = "manipulateAttribute(name)"
    /\ slast.name = Attribute1Name
    /\ slast.nameLength = Len(Attribute1Name)
    /\ slast.f.effect.stores
    /\ slast.f.result = 7
    /\ slast.ret = 7
    /\ seq # slast.pre

----------------------------------------------------------------------------
(* C26 *)

\* The footprints in use (blocks u, objects o) that hold no object and belong
\* to no object: RawHeld, of a given state.
HeldRaw(o, u) ==
    {BlockAddr(j) : j \in {i \in u :
        /\ o[BlockAddr(i)].cls = "none"
        /\ \A b \in Addrs : o[b].stuff # BlockAddr(i)}}

\* Whether the address x is an outstanding block of my_NewDeleteAllocator just
\* before the i-th allocator event of the last operation: the most recent
\* event about x returned it from allocate, or there is none and x was
\* outstanding when the operation began.
OutstandingBefore(i, x) ==
    LET about == {j \in 1 .. i - 1 :
                     /\ log[j].who = "nda"
                     /\ \/ log[j].ev = "allocate" /\ log[j].ret = x
                        \/ log[j].ev = "deallocate" /\ log[j].arg = x}
    IN IF about = {}
       THEN x \in HeapAddrs /\ BlockOf(x) \in last.pre.inUse
       ELSE log[CHOOSE j \in about : \A m \in about : m <= j].ev = "allocate"

\* deleteObjectRaw was handed a pointer that is not the address of the
\* complete object, which its contract excludes.
RawThroughBase ==
    /\ last.op = "deleteObjectRaw"
    /\ last.p # 0
    /\ CompleteObject(last.pre, last.p, last.st) # last.p

\* The last operation deleted the live object whose footprint is Footprint.
ObjectDeleted ==
    /\ last.op \in {"deleteObject", "deleteObjectRaw"}
    /\ last.p # 0
    /\ ~RawThroughBase
    /\ last.exc = "none"

\* C26: in any sequence of operations that creates objects in footprints of
\* allocator A and hands each live object to A.deleteObject or (by the address
\* of the complete object) to A.deleteObjectRaw, every non-null address that
\* reaches A.deallocate was returned by A.allocate and is outstanding at that
\* moment (my_Allocator hands out only its own address), no behaviour is
\* undefined, and deleting an object releases its footprint and every block
\* the object owns: the only footprints outstanding afterwards are those of
\* the objects still live, the blocks they own, and footprints that never held
\* an object, so that with no live object and no such footprint the number of
\* outstanding blocks is zero.
C26_DeallocateOutstanding ==
    ~RawThroughBase =>
        /\ ~ub
        /\ \A i \in 1 .. Len(log) :
               (log[i].ev = "deallocate" /\ log[i].arg # 0) =>
                   /\ log[i].who = "nda" => OutstandingBefore(i, log[i].arg)
                   /\ log[i].who = "mya" => log[i].arg = MyAAddr
        /\ ObjectDeleted =>
               /\ LiveObjects = {b \in Addrs : last.pre.objs[b].cls # "none"} \ {Footprint}
               /\ myA = "nda" =>
                      /\ BlockOf(Footprint) \in last.pre.inUse \ inUse
                      /\ HeldRaw(objs, inUse) = HeldRaw(last.pre.objs, last.pre.inUse)
                      /\ (LiveObjects = {} /\ HeldRaw(objs, inUse) = {}) => inUse = {}

\* C26 witness: a my_MostDerived object in a footprint of my_NewDeleteAllocator
\* was deleted through its my_RightBase sub-object (non-zero offset);
\* deallocate received the footprint, and no block is outstanding.
C26_Witness ==
    /\ ObjectDeleted
    /\ last.op = "deleteObject"
    /\ myA = "nda"
    /\ last.cls = "my_MostDerived"
    /\ last.st = "my_RightBase"
    /\ last.p # Footprint
    /\ \E i \in 1 .. Len(log) :
           /\ log[i].ev = "deallocate"
           /\ log[i].arg = Footprint
           /\ OutstandingBefore(i, Footprint)
    /\ last.pre.inUse # {}
    /\ LiveObjects = {}
    /\ inUse = {}

----------------------------------------------------------------------------
(* C27 *)

\* The elements of a stack, bottom first, read from its block.
ElementsOf(st, mem) == [i \in 1 .. st.d_length |-> mem[st.d_stack_p][i]]

\* The heap blocks outstanding, of either allocator.
OutstandingStackBlocks == {k \in Blocks : sheap.owner[k] # "free"}

\* The last operation was a push that found the stack full.
PushGrows ==
    /\ stlast.op = "push"
    /\ stlast.pre.stack.d_length >= stlast.pre.stack.d_size

\* C27: a live my_DoubleStack has 0 <= d_length <= d_size and holds exactly one
\* outstanding block, obtained from its own allocator (no block is outstanding
\* when no stack lives); a push never lowers d_size, and a push that completes
\* leaves the elements pushed before in place and in order below the new one,
\* also when the capacity grew; a capacity increase calls allocate for the new
\* block before it calls deallocate for the old one, and if that allocate
\* throws, the stack keeps its old block, length, capacity and elements.  No
\* assertion of the class fails and no behaviour is undefined.
C27_DoubleStack ==
    /\ ~sheap.failed /\ ~sheap.ub
    /\ stack.alive =>
           /\ 0 <= stack.d_length /\ stack.d_length <= stack.d_size
           /\ OutstandingStackBlocks = {stack.d_stack_p}
           /\ sheap.owner[stack.d_stack_p] = stack.d_allocator_p
           /\ Len(sheap.mem[stack.d_stack_p]) = stack.d_size
    /\ ~stack.alive => OutstandingStackBlocks = {}
    /\ stlast.op = "push" =>
           /\ stack.alive
           /\ stack.d_size >= stlast.pre.stack.d_size
           /\ stack.d_allocator_p = stlast.pre.stack.d_allocator_p
           /\ stlast.exc = "none" =>
                  ElementsOf(stack, sheap.mem) =
                      Append(ElementsOf(stlast.pre.stack, stlast.pre.mem), stlast.arg)
           /\ ~PushGrows => stlast.log = <<>> /\ stack.d_size = stlast.pre.stack.d_size
    /\ (PushGrows /\ stlast.exc = "none") =>
           /\ stack.d_size = stlast.pre.stack.d_size * GROW_FACTOR
           /\ Len(stlast.log) = 2
           /\ stlast.log[1].ev = "allocate"
           /\ stlast.log[1].ret = stack.d_stack_p
           /\ stlast.log[2].ev = "deallocate"
           /\ stlast.log[2].arg = stlast.pre.stack.d_stack_p
           /\ stack.d_stack_p # stlast.pre.stack.d_stack_p
    /\ (PushGrows /\ stlast.exc # "none") =>
           /\ Len(stlast.log) = 1
           /\ stlast.log[1].ev = "allocate"
           /\ stack = stlast.pre.stack
           /\ sheap.owner = stlast.pre.owner
           /\ sheap.mem = stlast.pre.mem

\* C27 witness: the third push found a stack of capacity 2 full; the capacity
\* is now 4 and the two elements pushed before lie, in order, below the new one.
C27_Witness ==
    /\ PushGrows
    /\ stlast.exc = "none"
    /\ stlast.pre.stack.d_size = 2
    /\ stack.d_size = 4
    /\ stack.d_length = 3
    /\ ElementsOf(stlast.pre.stack, stlast.pre.mem) = <<125, 150>>
    /\ ElementsOf(stack, sheap.mem) = <<125, 150, 150>>
    /\ stack.d_stack_p # stlast.pre.stack.d_stack_p

----------------------------------------------------------------------------
(* C28 *)

\* The hash cache of attribute at is unset.
CacheUnset(at) == at.d_hashValue = -1

\* C28: whenever the hash cache of a live Attribute is set (d_hashValue # -1),
\* d_hashSize is a slot count (> 0) and d_hashValue is the hash of the
\* attribute's current name and value for d_hashSize slots; a value
\* constructor leaves the cache unset with d_hashSize 0, setName and every
\* setValue overload leave d_hashValue -1, copy construction and operator=
\* leave the target with the source's name, value and cache, and hash returns
\* the hash of the current name and value for the size asked, within
\* 0 .. size - 1.
C28_HashCache ==
    /\ \A x \in AttrSlots :
           (attribs[x].alive /\ ~CacheUnset(attribs[x])) =>
               /\ attribs[x].d_hashSize > 0
               /\ attribs[x].d_hashValue =
                      HashCode(attribs[x].d_name, attribs[x].d_value, attribs[x].d_hashSize)
    /\ atlast.op = "Attribute" =>
           CacheUnset(attribs[atlast.x]) /\ attribs[atlast.x].d_hashSize = 0
    /\ atlast.op \in {"setName", "setValue"} => CacheUnset(attribs[atlast.x])
    /\ atlast.op \in {"copy", "operator="} =>
           /\ attribs[atlast.x].d_name = attribs[atlast.y].d_name
           /\ attribs[atlast.x].d_value = attribs[atlast.y].d_value
           /\ attribs[atlast.x].d_hashValue = attribs[atlast.y].d_hashValue
           /\ attribs[atlast.x].d_hashSize = attribs[atlast.y].d_hashSize
    /\ atlast.op = "hash" =>
           /\ atlast.ret \in 0 .. atlast.size - 1
           /\ atlast.ret = HashCode(attribs[atlast.x].d_name, attribs[atlast.x].d_value,
                                    atlast.size)
           /\ attribs[atlast.x].d_hashValue = atlast.ret
           /\ attribs[atlast.x].d_hashSize = atlast.size

\* C28 witness: mX was hashed and then copied to mY; mX has since been renamed
\* and its cache is unset (its d_hashSize still names the old slot count),
\* while mY keeps the name and the cache it was copied with.
C28_Witness ==
    /\ atlast.op = "setName"
    /\ atlast.x = "mX"
    /\ CacheUnset(attribs["mX"])
    /\ attribs["mX"].d_hashSize = 3
    /\ attribs["mY"].alive
    /\ attribs["mY"].d_name # attribs["mX"].d_name
    /\ attribs["mY"].d_hashSize = 3
    /\ attribs["mY"].d_hashValue = HashCode(attribs["mY"].d_name, attribs["mY"].d_value, 3)
    /\ HashCode(attribs["mX"].d_name, attribs["mX"].d_value, 3) # attribs["mY"].d_hashValue

----------------------------------------------------------------------------
(* C29 *)

\* The formatter a formatting mode names: printList when the list bit is set,
\* else the one the type bits name, "none" when they name none.
FormatterOf(formattingMode) ==
    IF HasBit(formattingMode, e_LIST) THEN "printList"
    ELSE CASE TypeOf(formattingMode) = e_BASE64 -> "printBase64"
           [] TypeOf(formattingMode) = e_DEC -> "printDecimal"
           [] TypeOf(formattingMode) = e_DEFAULT -> "printDefault"
           [] TypeOf(formattingMode) = e_HEX -> "printHex"
           [] TypeOf(formattingMode) = e_TEXT -> "printText"
           [] OTHER -> "none"

\* Whether formatter fmt has an overload that supports object o (a dynamic
\* type counts as its run-time category, a customized type as its base type).
HasOverload(fmt, o) ==
    LET u == IF o.cat = "DynamicType" THEN ByCategory(o) ELSE o
        s == IF u.cat = "CustomizedType" /\ fmt # "printList"
             THEN ConvertToBaseType(u) ELSE u
    IN CASE fmt = "printList" -> s.cat = "Array"
         [] fmt = "none" -> FALSE
         [] s.cat = "Simple" -> s.base \in SimpleOverloads(fmt)
         [] s.cat = "Array" -> s.base = "char" /\ fmt # "printDecimal"
         [] s.cat = "Enumeration" -> fmt \in {"printDecimal", "printDefault", "printText"}
         [] s.cat = "NullableValue" -> fmt = "printDefault"
         [] OTHER -> FALSE

\* print() chose its formatter from the formatting mode alone: printList when
\* the list bit is set, else the one formatter the type bits name, else none.
DispatchedByMode ==
    prt.delegated = IF FormatterOf(prt.formattingMode) = "none" THEN <<>>
                    ELSE <<FormatterOf(prt.formattingMode)>>

NothingSupports == ~HasOverload(FormatterOf(prt.formattingMode), prt.object)

\* The claim as stated: whenever the mode names no formatter or the formatter
\* has no overload for the type, nothing is written and the failbit is set.
C29_Original ==
    prt.op = "print" =>
        /\ DispatchedByMode
        /\ NothingSupports => prt.stream.out = <<>> /\ prt.stream.failbit

\* C29: print() chooses its formatter from formattingMode alone: printList
\* when the e_LIST bit is set, whatever the type bits are, and otherwise
\* exactly the one of printBase64, printDecimal, printDefault, printHex and
\* printText that formattingMode & e_TYPE_MASK names.  When the type bits name
\* none of them, or the formatter has no overload for the type, nothing is
\* written; the failbit of the stream is then set in a build in which
\* BSLS_ASSERT_SAFE is not active, while in a safe build the assertion
\* "Unsupported operation!" fails first and the failbit is never set.
C29_PrintDispatch ==
    prt.op = "print" =>
        /\ DispatchedByMode
        /\ NothingSupports =>
               /\ prt.stream.out = <<>>
               /\ prt.stream.failbit = ~safeBuild
               /\ prt.aborted = safeBuild
        /\ HasBit(prt.formattingMode, e_LIST) =>
               prt.stream = PrintList([stream |-> EmptyStream, delegated |-> <<>>,
                                       aborted |-> FALSE], prt.object).stream

\* C29 witness: an int was printed in mode e_HEX | e_ATTRIBUTE in a build
\* without safe assertions; printHex was chosen, has no overload for int, and
\* the stream is empty with its failbit set.
C29_Witness ==
    /\ prt.op = "print"
    /\ ~safeBuild
    /\ prt.object.cat = "Simple"
    /\ prt.object.base = "int"
    /\ prt.formattingMode = e_HEX + e_ATTRIBUTE
    /\ prt.delegated = <<"printHex">>
    /\ prt.stream.out = <<>>
    /\ prt.stream.failbit

----------------------------------------------------------------------------
(* C30 *)

\* The elements of the printed array that are not null, in index order.
NonNullElements ==
    SelectSeq(prt.object.elems, LAMBDA e : ~(prt.object.base = "Nullable<int>" /\ e.null))

\* The default representation of an element of the printed array.
ElementRepr(e) == Repr("printDefault", "int", <<e.v>>)

\* The text a list of k representations rs gives: each but the first preceded
\* by one delimiter.
Joined(rs) ==
    [i \in 1 .. (IF Len(rs) = 0 THEN 0 ELSE 2 * Len(rs) - 1) |->
        IF i % 2 = 1 THEN rs[(i + 1) \div 2] ELSE Delimiter]

\* printList was applied to an array of int or of nullable int.
ListPrinted ==
    /\ prt.op = "printList"
    /\ prt.object.cat = "Array"
    /\ prt.object.base \in {"int", "Nullable<int>"}

\* C30: printList over an array (of int or nullable int, to a stream in the
\* good state) writes the default representations of the non-null elements in
\* index order with exactly one delimiter between neighbours: nothing is
\* written for an empty array or for a null element, the output neither
\* begins nor ends with a delimiter and never has two in a row, so that a
\* delimiter precedes an element exactly when a non-null element was written
\* before it.  The stream stays good.
C30_PrintList ==
    ListPrinted =>
        /\ prt.stream.out =
               Joined([i \in 1 .. Len(NonNullElements) |-> ElementRepr(NonNullElements[i])])
        /\ ~prt.stream.failbit /\ ~prt.aborted
        /\ prt.object.elems = <<>> => prt.stream.out = <<>>
        /\ prt.stream.out # <<>> =>
               /\ prt.stream.out[1] # Delimiter
               /\ prt.stream.out[Len(prt.stream.out)] # Delimiter
        /\ \A i \in 1 .. Len(prt.stream.out) - 1 :
               (prt.stream.out[i] = Delimiter) # (prt.stream.out[i + 1] = Delimiter)

\* C30 witness: an array <null, x, y> of nullable ints was printed as
\* "x y": two representations with one delimiter between them.
C30_Witness ==
    /\ ListPrinted
    /\ prt.object.base = "Nullable<int>"
    /\ Len(prt.object.elems) = 3
    /\ prt.object.elems[1].null
    /\ ~prt.object.elems[2].null
    /\ ~prt.object.elems[3].null
    /\ prt.stream.out = <<ElementRepr(prt.object.elems[2]), Delimiter,
                          ElementRepr(prt.object.elems[3])>>

====
